---- MODULE Spec2Model ----
(***************************************************************************)
(* Schematic viewer: the two schematic decoders (parser.js), the block     *)
(* classification helpers (blockColors.js) and the region / material       *)
(* analysis of the application (app.js).                                   *)
(*                                                                         *)
(* Strings are sequences of tokens; a token is a run of characters that no *)
(* string operation of the program cuts ("minecraft", ":", "air", "[").    *)
(* null/undefined is the one-token string Null, which no descriptor holds. *)
(* JavaScript numbers that are int32 values are integers; a 64-bit word is *)
(* the set of its one-bit positions.                                       *)
(***************************************************************************)
EXTENDS Integers, Sequences, FiniteSets, TLC

VARIABLES
    airCase,        \* how blockState was written: namespace, id, letter case, suffix
    blockState,     \* the descriptor handed to the three air classifiers
    airResult,      \* their answers
    original,       \* the integers a varint buffer was encoded from
    bytes,          \* decodeVarintArray: the byte buffer
    expectedCount,  \* decodeVarintArray: the expected element count
    decoded,        \* decodeVarintArray: what the call produced
    source,         \* how the file was built: palette, cell assignment, layout
    nbtData,        \* the compound tree handed to the adapter
    schematic,      \* app.js `schematic`: the grid the adapter returned
    parseError,     \* loadFile: the error the adapter threw, caught and alerted
    probe,          \* the last getBlock query and what it did
    materialsData,  \* app.js `materialsData`
    currentLayer,   \* app.js `currentLayer`
    fill,           \* floodFill's frame: arguments, locals, position, result
    stackCount,     \* formatStacks: the count
    stackText,      \* formatStacks: what the call returned
    highlightedGroup,  \* app.js `highlightedGroup`: the hovered region's cells
    highlightBounds,   \* app.js `highlightBounds`: floodFill's result for them
    lastHoverX,        \* app.js `lastHoverX`
    lastHoverZ,        \* app.js `lastHoverZ`
    placedBlocks,      \* app.js `placedBlocks`: layer -> cells marked placed
    is3DMode,          \* app.js `is3DMode`
    is3DModelBuilt,    \* app.js `is3DModelBuilt`
    loads,             \* the loadFile calls that have not finished, oldest first
    selected,          \* the file most recently handed to loadFile
    loadingActive,     \* the loading overlay's `active` class
    infoPanel,         \* the file badge and the info panel's fields
    layerSliderMax,    \* layerSlider.max
    textureCache,      \* blockColors.js `textureCache`: the block ids tried
    chkHighlight3d,    \* the 'Illuminate Layer' checkbox
    highlightTimers,   \* switchTo3D's setTimeout callbacks not yet run
    build,             \* build3DModelAsync: the position of the call in flight
    instancedMeshes    \* viewer3d.js `instancedMeshes` with their blockGroups

vars == <<airCase, blockState, airResult, original, bytes, expectedCount, decoded,
          source, nbtData, schematic, parseError, probe, materialsData, currentLayer,
          fill, stackCount, stackText, highlightedGroup, highlightBounds, lastHoverX,
          lastHoverZ, placedBlocks, is3DMode, is3DModelBuilt, loads, selected,
          loadingActive, infoPanel, layerSliderMax, textureCache, chkHighlight3d,
          highlightTimers, build, instancedMeshes>>

airVars    == <<airCase, blockState, airResult>>
varintVars == <<original, bytes, expectedCount, decoded>>
parseVars  == <<source, nbtData, schematic, parseError, probe, materialsData>>
floodVars  == <<currentLayer, fill>>
stackVars  == <<stackCount, stackText>>
hoverVars  == <<lastHoverX, lastHoverZ>>
viewVars   == <<highlightedGroup, highlightBounds, lastHoverX, lastHoverZ, placedBlocks,
                is3DMode, is3DModelBuilt>>
loadVars   == <<loads, selected, loadingActive, infoPanel, layerSliderMax, textureCache>>
sceneVars  == <<chkHighlight3d, highlightTimers, build, instancedMeshes>>

(***************************************************************************)
(* Strings                                                                 *)
(***************************************************************************)

Null == <<"<null>">>

\* !s for a string or null/undefined
Falsy(s) == s = Null \/ s = <<>>

\* one token of String.prototype.toLowerCase
LowerToken(t) ==
    CASE t \in {"Minecraft", "MINECRAFT"} -> "minecraft"
      [] t \in {"Air", "AIR"}             -> "air"
      [] t \in {"Cave_Air", "CAVE_AIR"}   -> "cave_air"
      [] t \in {"Void_Air", "VOID_AIR"}   -> "void_air"
      [] t \in {"Stone", "STONE"}         -> "stone"
      [] t \in {"Oak_Stairs", "OAK_STAIRS"} -> "oak_stairs"
      [] t \in {"Dirt", "DIRT"}           -> "dirt"
      [] OTHER                            -> t

ToLowerCase(s) == [i \in 1..Len(s) |-> LowerToken(s[i])]

\* the index of the first occurrence of pat in s, 0 when there is none
IndexOf(s, pat) ==
    LET hits == {i \in 1..(Len(s) - Len(pat) + 1) : SubSeq(s, i, i + Len(pat) - 1) = pat}
    IN  IF hits = {} THEN 0 ELSE CHOOSE i \in hits : \A j \in hits : i <= j

\* s.split('[')[0]
SplitBracketFirst(s) ==
    LET i == IndexOf(s, <<"[">>)
    IN  IF i = 0 THEN s ELSE SubSeq(s, 1, i - 1)

\* s.replace(pat, rep) with a string pattern: the first occurrence only
ReplaceFirst(s, pat, rep) ==
    LET i == IndexOf(s, pat)
    IN  IF i = 0 THEN s
        ELSE SubSeq(s, 1, i - 1) \o rep \o SubSeq(s, i + Len(pat), Len(s))

MinecraftPrefix == <<"minecraft", ":">>

(***************************************************************************)
(* blockColors.js                                                          *)
(***************************************************************************)

\* getBaseBlockId without the split at '['
GetBaseBlockIdKeepProperties(blockState_) ==
    IF Falsy(blockState_) THEN Null
    ELSE ReplaceFirst(ToLowerCase(blockState_), MinecraftPrefix, <<>>)

GetBaseBlockId(blockState_) ==
    IF Falsy(blockState_) THEN Null
    ELSE ReplaceFirst(ToLowerCase(SplitBracketFirst(blockState_)), MinecraftPrefix, <<>>)

IsAirCaseSensitive(blockState_) ==
    IF Falsy(blockState_) THEN TRUE
    ELSE LET b == SplitBracketFirst(blockState_)
         IN  \/ b = <<"minecraft", ":", "air">>
             \/ b = <<"minecraft", ":", "cave_air">>
             \/ b = <<"minecraft", ":", "void_air">>
             \/ b = <<"air">>

IsAir(blockState_) ==
    IF Falsy(blockState_) THEN TRUE
    ELSE LET b == ToLowerCase(SplitBracketFirst(blockState_))
         IN  \/ b = <<"minecraft", ":", "air">>
             \/ b = <<"minecraft", ":", "cave_air">>
             \/ b = <<"minecraft", ":", "void_air">>
             \/ b = <<"air">>

(***************************************************************************)
(* parser.js: the two air-index classifiers                                *)
(***************************************************************************)

\* parseSchem, the test of paletteList.forEach
SchemStateIsAir(state) ==
    \/ Falsy(state)
    \/ state = <<"minecraft", ":", "air">>
    \/ state = <<"minecraft", ":", "cave_air">>
    \/ state = <<"minecraft", ":", "void_air">>

\* parseLitematic, the test of paletteList.forEach (state is never null there)
LitematicStateIsAir(state) ==
    LET base == ToLowerCase(SplitBracketFirst(state))
    IN  \/ base = <<"minecraft", ":", "air">>
        \/ base = <<"minecraft", ":", "cave_air">>
        \/ base = <<"minecraft", ":", "void_air">>

(***************************************************************************)
(* int32 arithmetic of JavaScript's bitwise operators                      *)
(***************************************************************************)

Pow2(n) == 2 ^ n

\* v * 2^s without an intermediate beyond 32 bits
Scale(v, s) == IF s = 0 THEN v ELSE (v * Pow2(s - 1)) * 2

RECURSIVE OrNat(_, _)
OrNat(a, b) ==
    IF a = 0 THEN b
    ELSE IF b = 0 THEN a
    ELSE (IF a % 2 = 1 \/ b % 2 = 1 THEN 1 ELSE 0) + 2 * OrNat(a \div 2, b \div 2)

RECURSIVE AndNat(_, _)
AndNat(a, b) ==
    IF a = 0 \/ b = 0 THEN 0
    ELSE (IF a % 2 = 1 /\ b % 2 = 1 THEN 1 ELSE 0) + 2 * AndNat(a \div 2, b \div 2)

\* a & ~b on naturals
RECURSIVE AndNotNat(_, _)
AndNotNat(a, b) ==
    IF a = 0 THEN 0
    ELSE (IF a % 2 = 1 /\ b % 2 = 0 THEN 1 ELSE 0) + 2 * AndNotNat(a \div 2, b \div 2)

\* ~a on int32
Not32(a) == 0 - (a + 1)

\* a | b on int32 (two's complement)
Or32(a, b) ==
    IF a >= 0 /\ b >= 0 THEN OrNat(a, b)
    ELSE IF a < 0 /\ b < 0 THEN Not32(AndNat(Not32(a), Not32(b)))
    ELSE IF a < 0 THEN Not32(AndNotNat(Not32(a), b))
    ELSE Not32(AndNotNat(Not32(b), a))

\* x << shift for 0 <= x < 128: the shift count is taken modulo 32 and the
\* result wraps to int32
Shl32(x, shift) ==
    LET s == shift % 32
        k == 32 - s
    IN  IF s <= 24 THEN x * Pow2(s)
        ELSE LET xl == x % Pow2(k)
             IN  IF xl >= Pow2(k - 1) THEN Scale(xl - Pow2(k), s) ELSE Scale(xl, s)

(***************************************************************************)
(* parser.js: decodeVarintArray                                            *)
(***************************************************************************)

\* the do-while of one element with the shift never advanced
RECURSIVE DecodeVarintElementNoShift(_, _, _, _)
DecodeVarintElementNoShift(bytes_, cursor, value, shift) ==
    IF cursor >= Len(bytes_) THEN [ok |-> FALSE, cursor |-> cursor, value |-> value]
    ELSE LET b  == bytes_[cursor + 1]
             v2 == Or32(value, Shl32(b % 128, shift))
         IN  IF b >= 128 THEN DecodeVarintElementNoShift(bytes_, cursor + 1, v2, shift)
             ELSE [ok |-> TRUE, cursor |-> cursor + 1, value |-> v2]

\* the do-while of one element: consumes bytes from `cursor` (0-based)
RECURSIVE DecodeVarintElement(_, _, _, _)
DecodeVarintElement(bytes_, cursor, value, shift) ==
    IF cursor >= Len(bytes_) THEN [ok |-> FALSE, cursor |-> cursor, value |-> value]
    ELSE LET b  == bytes_[cursor + 1]
             v2 == Or32(value, Shl32(b % 128, shift))
         IN  IF b >= 128 THEN DecodeVarintElement(bytes_, cursor + 1, v2, shift + 7)
             ELSE [ok |-> TRUE, cursor |-> cursor + 1, value |-> v2]

\* one element with a byte past the end of the buffer read as 0
VarintElementZeroPadded(bytes_, cursor) ==
    IF cursor >= Len(bytes_) THEN [ok |-> TRUE, cursor |-> cursor + 1, value |-> 0]
    ELSE DecodeVarintElement(bytes_, cursor, 0, 0)

VarintElement(bytes_, cursor) == DecodeVarintElement(bytes_, cursor, 0, 0)

\* the for loop: element i onwards, `result` holding the elements before it
RECURSIVE DecodeVarintFrom(_, _, _, _, _)
DecodeVarintFrom(bytes_, expectedCount_, i, cursor, result) ==
    IF i >= expectedCount_ THEN [ok |-> TRUE, value |-> result, index |-> i]
    ELSE LET e == VarintElement(bytes_, cursor)
         IN  IF ~e.ok
             THEN [ok |-> FALSE, value |-> <<>>, index |-> i]   \* throw new Error(...)
             ELSE DecodeVarintFrom(bytes_, expectedCount_, i + 1, e.cursor,
                                   Append(result, e.value))

DecodeVarintArray(bytes_, expectedCount_) ==
    DecodeVarintFrom(bytes_, expectedCount_, 0, 0, <<>>)

(***************************************************************************)
(* The LEB128 writer the buffers are produced with                         *)
(***************************************************************************)

RECURSIVE EncodeVarint(_)
EncodeVarint(v) ==
    IF v < 128 THEN <<v>> ELSE <<(v % 128) + 128>> \o EncodeVarint(v \div 128)

RECURSIVE EncodeVarintArray(_)
EncodeVarintArray(values) ==
    IF values = <<>> THEN <<>>
    ELSE EncodeVarint(Head(values)) \o EncodeVarintArray(Tail(values))

(***************************************************************************)
(* parser.js: parseSchem                                                   *)
(*                                                                         *)
(* The root compound is [Width, Height, Length, hasPalette, Palette,       *)
(* hasBlockData, BlockData]: Palette is the sequence of the map's entries  *)
(* [state, index] in Object.entries order, BlockData an Int8Array that     *)
(* owns its buffer.  The schematic's name is not modelled.                 *)
(***************************************************************************)

Max(a, b) == IF a >= b THEN a ELSE b

Min(a, b) == IF a <= b THEN a ELSE b
Abs(a) == IF a < 0 THEN 0 - a ELSE a
CeilDiv(a, b) == (a + b - 1) \div b

\* arr[i] of a typed array, 0-based; -1 stands for undefined (it names no
\* palette slot either)
ArrayAt(arr, i) == IF i >= 0 /\ i < Len(arr) THEN arr[i + 1] ELSE 0 - 1

\* paletteList[paletteIdx] || null
PaletteAt(paletteList, paletteIdx) ==
    IF paletteIdx >= 0 /\ paletteIdx < Len(paletteList)
       /\ ~Falsy(paletteList[paletteIdx + 1])
    THEN paletteList[paletteIdx + 1]
    ELSE Null

\* new Uint8Array(int8.buffer): each byte read unsigned
ToUint8(b) == IF b < 0 THEN b + 256 ELSE b
ToInt8(b) == IF b >= 128 THEN b - 256 ELSE b

RECURSIVE MaxPaletteIndex(_, _)
MaxPaletteIndex(entries, acc) ==
    IF entries = <<>> THEN acc
    ELSE MaxPaletteIndex(Tail(entries), Max(acc, Head(entries).index))

\* for (const [blockState, index] of Object.entries(paletteTag)) paletteList[index] = blockState
RECURSIVE FillPaletteList(_, _)
FillPaletteList(list, entries) ==
    IF entries = <<>> THEN list
    ELSE FillPaletteList([list EXCEPT ![Head(entries).index + 1] = Head(entries).state],
                         Tail(entries))

SchemPaletteList(paletteTag) ==
    FillPaletteList([i \in 1..(MaxPaletteIndex(paletteTag, 0) + 1) |-> Null], paletteTag)

SchemAirIndices(paletteList) ==
    {idx \in 0..(Len(paletteList) - 1) : SchemStateIsAir(paletteList[idx + 1])}

\* for (i ...) if (!airIndices.has(blockIndices[i])) totalNonAir++
CountNonAir(blockIndices, airIndices) ==
    Cardinality({i \in 1..Len(blockIndices) : blockIndices[i] \notin airIndices})

SchemIndex(g, x, y, z) == x + z * g.width + y * g.width * g.length

\* parseSchem's getBlock with x tested against width by > instead of >=
SchemGetBlockLooseBound(g, x, y, z) ==
    IF x < 0 \/ x > g.width \/ y < 0 \/ y >= g.height \/ z < 0 \/ z >= g.length
    THEN [ret |-> Null, reads |-> {}]
    ELSE LET index == SchemIndex(g, x, y, z)
         IN  [ret   |-> PaletteAt(g.paletteList, ArrayAt(g.blockIndices, index)),
              reads |-> {index}]

\* parseSchem's getBlock: the value returned and the positions of
\* blockIndices it read
SchemGetBlock(g, x, y, z) ==
    IF x < 0 \/ x >= g.width \/ y < 0 \/ y >= g.height \/ z < 0 \/ z >= g.length
    THEN [ret |-> Null, reads |-> {}]
    ELSE LET index == SchemIndex(g, x, y, z)
         IN  [ret   |-> PaletteAt(g.paletteList, ArrayAt(g.blockIndices, index)),
              reads |-> {index}]

Unnamed == <<"Unnamed">>

\* rec?.[field] || other
FieldOr(rec, field, other) ==
    IF field \in DOMAIN rec /\ ~Falsy(rec[field]) THEN rec[field] ELSE other

\* root.Metadata?.Name || root.Metadata?.name || 'Unnamed'
SchemName(root) ==
    IF "Metadata" \notin DOMAIN root THEN Unnamed
    ELSE FieldOr(root.Metadata, "Name", FieldOr(root.Metadata, "name", Unnamed))

\* nbtData.Metadata?.Name || regionName || 'Unnamed'; the key the first region
\* is stored under is its field regionName
LitematicName(nbt) ==
    LET regionName == FieldOr(nbt.Regions[1], "regionName", <<>>)
        metaName   == IF "Metadata" \in DOMAIN nbt THEN FieldOr(nbt.Metadata, "Name", <<>>)
                      ELSE <<>>
    IN  IF ~Falsy(metaName) THEN metaName
        ELSE IF ~Falsy(regionName) THEN regionName
        ELSE Unnamed

Failure(message) == [ok |-> FALSE, error |-> message]

\* parseSchem reading an absent Palette as an empty one and an absent
\* BlockData as an empty buffer
ParseSchemAbsentAsEmpty(root) ==
    LET paletteList == SchemPaletteList(root.Palette)
        bytes_      == [i \in 1..Len(root.BlockData) |-> ToUint8(root.BlockData[i])]
        totalBlocks == root.Width * root.Height * root.Length
    IN  IF totalBlocks < 0 THEN Failure("RangeError: Invalid typed array length")
        ELSE
        LET d == DecodeVarintArray(bytes_, totalBlocks)
        IN  IF ~d.ok THEN Failure("Unexpected end of varint data")
            ELSE [ok           |-> TRUE,
                  format       |-> "schem",
                  width        |-> root.Width,
                  height       |-> root.Height,
                  length       |-> root.Length,
                  name         |-> SchemName(root),
                  paletteList  |-> paletteList,
                  blockIndices |-> d.value,
                  totalNonAir  |-> CountNonAir(d.value, SchemAirIndices(paletteList))]

ParseSchem(root) ==
    IF ~root.hasPalette THEN Failure("No Palette found in .schem file")
    ELSE IF ~root.hasBlockData THEN Failure("No BlockData found in .schem file")
    ELSE
    LET paletteList == SchemPaletteList(root.Palette)
        bytes_      == [i \in 1..Len(root.BlockData) |-> ToUint8(root.BlockData[i])]
        totalBlocks == root.Width * root.Height * root.Length
    IN  IF totalBlocks < 0 THEN Failure("RangeError: Invalid typed array length")
        ELSE
        LET d == DecodeVarintArray(bytes_, totalBlocks)
        IN  IF ~d.ok THEN Failure("Unexpected end of varint data")
            ELSE [ok           |-> TRUE,
                  format       |-> "schem",
                  width        |-> root.Width,
                  height       |-> root.Height,
                  length       |-> root.Length,
                  name         |-> SchemName(root),
                  paletteList  |-> paletteList,
                  blockIndices |-> d.value,
                  totalNonAir  |-> CountNonAir(d.value, SchemAirIndices(paletteList))]

(***************************************************************************)
(* BigInt arithmetic on 64-bit words                                       *)
(*                                                                         *)
(* A long of the word array is the set of the positions (0..63) of its one *)
(* bits, bit 63 being the sign.  A BigInt is [bits, neg]: when neg, every  *)
(* bit from 64 up is one as well (two's complement without end).           *)
(***************************************************************************)

BigIntZero == [bits |-> {}, neg |-> FALSE]

\* BigInt(long)
BigIntOfLong(w) == [bits |-> w, neg |-> 63 \in w]

\* BigInt.asUintN(64, v)
AsUintN64(v) == [bits |-> {b \in v.bits : b < 64}, neg |-> FALSE]

\* v >> BigInt(k), 0 <= k < 64: the sign fills from the top
BigShiftRight(v, k) ==
    [bits |-> {b - k : b \in {c \in v.bits : c >= k}}
                \cup (IF v.neg THEN {b \in 0..63 : b >= 64 - k} ELSE {}),
     neg  |-> v.neg]

\* v << BigInt(k) for v >= 0: nothing is cut off
BigShiftLeft(v, k) == [bits |-> {b + k : b \in v.bits}, neg |-> FALSE]

\* v & mask for mask = (1n << BigInt(n)) - 1n
BigAndMask(v, n) == [bits |-> {b \in 0..(n - 1) : b \in v.bits}, neg |-> FALSE]

\* a | b for a, b >= 0
BigOr(a, b) == [bits |-> a.bits \cup b.bits, neg |-> FALSE]

\* Number(v) for 0 <= v < 2^31
RECURSIVE SumBits(_)
SumBits(S) ==
    IF S = {} THEN 0
    ELSE LET b == CHOOSE c \in S : TRUE IN Pow2(b) + SumBits(S \ {b})

BigToNumber(v) == SumBits(v.bits)

(***************************************************************************)
(* parser.js: parseLitematic                                               *)
(*                                                                         *)
(* nbtData is [hasRegions, Regions]: Regions the sequence of the map's     *)
(* regions in Object.keys order, each [Size, hasPalette, BlockStatePalette,*)
(* hasBlockStates, BlockStates]; a palette entry is [Name, Properties],    *)
(* Properties the sequence of its [k, v] pairs (empty when absent).        *)
(***************************************************************************)

\* Math.ceil(Math.log2(n)) for n >= 1
RECURSIVE CeilLog2From(_, _)
CeilLog2From(n, k) == IF Pow2(k) >= n THEN k ELSE CeilLog2From(n, k + 1)

CeilLog2(n) == CeilLog2From(n, 0)

BitsPerEntry(paletteLength) == Max(2, CeilLog2(paletteLength))

\* a.localeCompare(b) < 0 on the property keys
KeyRank(k) ==
    CASE k = "facing"      -> 1
      [] k = "half"        -> 2
      [] k = "shape"       -> 3
      [] k = "waterlogged" -> 4

\* Object.entries(props).sort(([a], [b]) => a.localeCompare(b))
RECURSIVE SortByKey(_)
SortByKey(props) ==
    IF props = <<>> THEN <<>>
    ELSE LET m == CHOOSE i \in 1..Len(props) :
                      \A j \in 1..Len(props) : KeyRank(props[i].k) <= KeyRank(props[j].k)
         IN  <<props[m]>> \o SortByKey(SubSeq(props, 1, m - 1) \o SubSeq(props, m + 1, Len(props)))

\* .map(([k, v]) => `${k}=${v}`).join(',')
RECURSIVE JoinProps(_)
JoinProps(props) ==
    IF props = <<>> THEN <<>>
    ELSE <<Head(props).k, "=", Head(props).v>>
            \o (IF Len(props) > 1 THEN <<",">> ELSE <<>>) \o JoinProps(Tail(props))

\* the palette.map callback
PaletteEntryName(entry) ==
    IF Len(entry.Properties) > 0
    THEN entry.Name \o <<"[">> \o JoinProps(SortByKey(entry.Properties)) \o <<"]">>
    ELSE entry.Name

ExpectedSpanning(totalBlocks, bitsPerEntry) == CeilDiv(totalBlocks * bitsPerEntry, 64)

ExpectedNonSpanning(totalBlocks, bitsPerEntry) == CeilDiv(totalBlocks, 64 \div bitsPerEntry)

\* isSpanning decided by the array length alone
IsSpanningByLengthOnly(blockStatesLong, totalBlocks, bitsPerEntry) ==
    Len(blockStatesLong) = ExpectedSpanning(totalBlocks, bitsPerEntry)

IsSpanning(blockStatesLong, totalBlocks, bitsPerEntry) ==
    /\ Len(blockStatesLong) = ExpectedSpanning(totalBlocks, bitsPerEntry)
    /\ ExpectedSpanning(totalBlocks, bitsPerEntry) # ExpectedNonSpanning(totalBlocks, bitsPerEntry)

\* a long past the end of the array read as -1n, every bit set
LongOrOnes(blockStatesLong, j) ==
    IF j >= 0 /\ j < Len(blockStatesLong) THEN BigIntOfLong(blockStatesLong[j + 1])
    ELSE [bits |-> 0..63, neg |-> TRUE]

\* blockStatesLong[j] !== undefined ? BigInt(blockStatesLong[j]) : 0n
LongOrZero(blockStatesLong, j) ==
    IF j >= 0 /\ j < Len(blockStatesLong) THEN BigIntOfLong(blockStatesLong[j + 1])
    ELSE BigIntZero

\* the spanning loop body with the part in the next long dropped
SpanningEntryNoCarry(blockStatesLong, i, bitsPerEntry) ==
    LET startBit       == i * bitsPerEntry
        startIndex     == startBit \div 64
        startBitOffset == startBit % 64
        val1           == AsUintN64(BigIntOfLong(blockStatesLong[startIndex + 1]))
    IN  BigToNumber(BigAndMask(BigShiftRight(val1, startBitOffset), bitsPerEntry))

\* the spanning loop body: entry i (0-based); startIndex is inside the array
SpanningEntry(blockStatesLong, i, bitsPerEntry) ==
    LET startBit       == i * bitsPerEntry
        startIndex     == startBit \div 64
        endBit         == startBit + bitsPerEntry - 1
        endIndex       == endBit \div 64
        startBitOffset == startBit % 64
        val1           == AsUintN64(BigIntOfLong(blockStatesLong[startIndex + 1]))
    IN  IF startIndex = endIndex
        THEN BigToNumber(BigAndMask(BigShiftRight(val1, startBitOffset), bitsPerEntry))
        ELSE LET endBitOffset == 64 - startBitOffset
                 val2  == AsUintN64(LongOrZero(blockStatesLong, endIndex))
                 part1 == BigAndMask(BigShiftRight(val1, startBitOffset), bitsPerEntry)
                 part2 == BigAndMask(BigShiftLeft(val2, endBitOffset), bitsPerEntry)
             IN  BigToNumber(BigOr(part1, part2))

\* the non-spanning loop body reading entry i at bit i * bitsPerEntry of the stream
NonSpanningEntryPacked(blockStatesLong, i, bitsPerEntry) ==
    LET longIndex    == (i * bitsPerEntry) \div 64
        bitOffset    == (i * bitsPerEntry) % 64
        unsignedLong == AsUintN64(LongOrZero(blockStatesLong, longIndex))
    IN  BigToNumber(BigAndMask(BigShiftRight(unsignedLong, bitOffset), bitsPerEntry))

\* the non-spanning loop body: entry i (0-based)
NonSpanningEntry(blockStatesLong, i, bitsPerEntry) ==
    LET entriesPerLong == 64 \div bitsPerEntry
        longIndex      == i \div entriesPerLong
        bitOffset      == (i % entriesPerLong) * bitsPerEntry
        unsignedLong   == AsUintN64(LongOrZero(blockStatesLong, longIndex))
    IN  BigToNumber(BigAndMask(BigShiftRight(unsignedLong, bitOffset), bitsPerEntry))

LitematicAirIndices(paletteList) ==
    {idx \in 0..(Len(paletteList) - 1) : LitematicStateIsAir(paletteList[idx + 1])}

LitematicIndexSwapped(g, x, y, z) == z * g.height * g.width + y * g.width + x

LitematicIndex(g, x, y, z) == y * g.length * g.width + z * g.width + x

\* parseLitematic's getBlock
LitematicGetBlock(g, x, y, z) ==
    IF x < 0 \/ x >= g.width \/ y < 0 \/ y >= g.height \/ z < 0 \/ z >= g.length
    THEN [ret |-> Null, reads |-> {}]
    ELSE LET index == LitematicIndex(g, x, y, z)
         IN  [ret   |-> PaletteAt(g.paletteList, ArrayAt(g.blockIndices, index)),
              reads |-> {index}]

ParseLitematic(nbt) ==
    IF ~nbt.hasRegions THEN Failure("No Regions found in .litematic file")
    ELSE IF nbt.Regions = <<>> THEN Failure("Empty Regions in .litematic file")
    ELSE
    LET region == nbt.Regions[1]
        width  == Abs(region.Size.x)
        height == Abs(region.Size.y)
        length == Abs(region.Size.z)
        palette == region.BlockStatePalette
    IN  IF ~region.hasPalette \/ Len(palette) = 0 THEN Failure("No BlockStatePalette found")
        ELSE IF ~region.hasBlockStates THEN Failure("No BlockStates found")
        ELSE
        LET paletteList     == [i \in 1..Len(palette) |-> PaletteEntryName(palette[i])]
            blockStatesLong == region.BlockStates
            totalBlocks     == width * height * length
            bitsPerEntry    == BitsPerEntry(Len(palette))
            blockIndices    ==
                IF IsSpanning(blockStatesLong, totalBlocks, bitsPerEntry)
                THEN [i \in 1..totalBlocks |-> SpanningEntry(blockStatesLong, i - 1, bitsPerEntry)]
                ELSE [i \in 1..totalBlocks |-> NonSpanningEntry(blockStatesLong, i - 1, bitsPerEntry)]
        IN  [ok           |-> TRUE,
             format       |-> "litematic",
             width        |-> width,
             height       |-> height,
             length       |-> length,
             name         |-> LitematicName(nbt),
             paletteList  |-> paletteList,
             blockIndices |-> blockIndices,
             totalNonAir  |-> CountNonAir(blockIndices, LitematicAirIndices(paletteList))]

\* schematic.getBlock(x, y, z): the closure of the adapter that built the grid
GetBlockCall(g, x, y, z) ==
    IF g.format = "schem" THEN SchemGetBlock(g, x, y, z) ELSE LitematicGetBlock(g, x, y, z)

GetBlock(g, x, y, z) == GetBlockCall(g, x, y, z).ret

(***************************************************************************)
(* app.js: computeMaterials                                                *)
(***************************************************************************)

\* the Map `counts` is kept as the sequence of its entries in insertion
\* order; counts.get(baseId) || 0
MapGetOrZero(counts, baseId) ==
    IF \E i \in 1..Len(counts) : counts[i].baseId = baseId
    THEN (CHOOSE e \in {counts[i] : i \in 1..Len(counts)} : e.baseId = baseId).count
    ELSE 0

\* a Map write that adds an entry whether or not the key is known
MapSetAppend(counts, baseId, count) ==
    Append(counts, [baseId |-> baseId, count |-> count])

\* counts.set(baseId, count): a known key keeps its place, a new one goes last
MapSet(counts, baseId, count) ==
    IF \E i \in 1..Len(counts) : counts[i].baseId = baseId
    THEN [i \in 1..Len(counts) |->
            IF counts[i].baseId = baseId
            THEN [baseId |-> baseId, count |-> count]
            ELSE counts[i]]
    ELSE Append(counts, [baseId |-> baseId, count |-> count])

\* the number of (y, z, x) iterations of the triple loop
ScanLength(g) ==
    IF g.width <= 0 \/ g.height <= 0 \/ g.length <= 0 THEN 0
    ELSE g.width * g.height * g.length

\* iteration n (0-based) of the loops y, then z, then x
RECURSIVE ScanCounts(_, _, _)
ScanCounts(g, n, counts) ==
    IF n >= ScanLength(g) THEN counts
    ELSE LET x  == n % g.width
             z  == (n \div g.width) % g.length
             y  == n \div (g.width * g.length)
             bs == GetBlock(g, x, y, z)
             baseId == GetBaseBlockId(bs)
         IN  IF IsAir(bs) THEN ScanCounts(g, n + 1, counts)
             ELSE IF Falsy(baseId) THEN ScanCounts(g, n + 1, counts)
             ELSE IF MapGetOrZero(counts, baseId) = 0
             THEN ScanCounts(g, n + 1, MapSet(counts, baseId, 0 + 1))
             ELSE ScanCounts(g, n + 1,
                             MapSet(counts, baseId, MapGetOrZero(counts, baseId) + 1))

\* one insertion of a sort that puts an entry before the entries of equal count
RECURSIVE InsertBeforeEqual(_, _)
InsertBeforeEqual(sorted, e) ==
    IF sorted = <<>> THEN <<e>>
    ELSE IF Head(sorted).count > e.count
         THEN <<Head(sorted)>> \o InsertBeforeEqual(Tail(sorted), e)
         ELSE <<e>> \o sorted

\* one insertion of a stable sort by (a, b) => b.count - a.count
RECURSIVE InsertByCount(_, _)
InsertByCount(sorted, e) ==
    IF sorted = <<>> THEN <<e>>
    ELSE IF Head(sorted).count >= e.count
         THEN <<Head(sorted)>> \o InsertByCount(Tail(sorted), e)
         ELSE <<e>> \o sorted

RECURSIVE SortByCount(_, _)
SortByCount(list, sorted) ==
    IF list = <<>> THEN sorted
    ELSE SortByCount(Tail(list), InsertByCount(sorted, Head(list)))

ComputeMaterialsList(g) == SortByCount(ScanCounts(g, 0, <<>>), <<>>)

(***************************************************************************)
(* app.js: formatStacks                                                    *)
(***************************************************************************)

\* `${n}` for an integer n >= 0: its decimal digits
RECURSIVE ToDecimal(_)
ToDecimal(n) ==
    LET digit == <<"0", "1", "2", "3", "4", "5", "6", "7", "8", "9">>[(n % 10) + 1]
    IN  IF n < 10 THEN <<digit>> ELSE Append(ToDecimal(n \div 10), digit)

\* formatStacks with the remainder always written out
FormatStacksAlwaysRemainder(count) ==
    LET stacks    == count \div 64
        remainder == count % 64
    IN  IF stacks = 0 THEN ToDecimal(count)
        ELSE ToDecimal(stacks) \o <<"×", "6", "4", " ", "+", " ">> \o ToDecimal(remainder)

\* formatStacks(count); a string is the sequence of its characters
FormatStacks(count) ==
    LET stackSize == 64
        stacks    == count \div stackSize
        remainder == count % stackSize
    IN  IF stacks = 0 THEN ToDecimal(count)
        ELSE IF remainder = 0 THEN ToDecimal(stacks) \o <<"×", "6", "4">>
        ELSE ToDecimal(stacks) \o <<"×", "6", "4", " ", "+", " ">> \o ToDecimal(remainder)

(***************************************************************************)
(* The writers of the two formats: a palette and a cell assignment written *)
(* as a .schem root (LEB128 bytes) or a .litematic tree (a spanning or a   *)
(* non-spanning word array).  cells[n + 1] is the palette index of the     *)
(* cell at flat position n = x + z*W + y*W*L.                              *)
(***************************************************************************)

StoneName == <<"minecraft", ":", "stone">>
AirName == <<"minecraft", ":", "air">>
DirtName == <<"minecraft", ":", "dirt">>
StairsName == <<"minecraft", ":", "oak_stairs">>

PlainEntry(name) == [present |-> TRUE, Name |-> name, Properties |-> <<>>, text |-> name]

StairsEntry(facing) ==
    [present    |-> TRUE,
     Name       |-> StairsName,
     Properties |-> <<[k |-> "half", v |-> "top"], [k |-> "facing", v |-> facing]>>,
     text       |-> StairsName \o <<"[", "facing", "=", facing, ",", "half", "=", "top", "]">>]

\* an index the palette map of a .schem file leaves unmapped
HoleEntry == [present |-> FALSE, Name |-> Null, Properties |-> <<>>, text |-> Null]

BitOf(v, j) == (v \div Pow2(j)) % 2

\* the entries back to back over the whole bit stream
PackSpanning(cells, bitsPerEntry) ==
    [w \in 1..CeilDiv(Len(cells) * bitsPerEntry, 64) |->
        {p \in 0..63 :
            LET bit == 64 * (w - 1) + p
                e   == bit \div bitsPerEntry
            IN  e < Len(cells) /\ BitOf(cells[e + 1], bit % bitsPerEntry) = 1}]

\* floor(64 / bitsPerEntry) whole entries per long, the rest of it padding
PackNonSpanning(cells, bitsPerEntry) ==
    LET entriesPerLong == 64 \div bitsPerEntry
    IN  [w \in 1..CeilDiv(Len(cells), entriesPerLong) |->
            {p \in 0..(entriesPerLong * bitsPerEntry - 1) :
                LET e == (w - 1) * entriesPerLong + (p \div bitsPerEntry)
                IN  e < Len(cells) /\ BitOf(cells[e + 1], p % bitsPerEntry) = 1}]

\* the palette map with its entries in descending index order
RECURSIVE SchemPaletteTag(_, _)
SchemPaletteTag(palette, n) ==
    IF n = 0 THEN <<>>
    ELSE (IF palette[n].present THEN <<[state |-> palette[n].text, index |-> n - 1]>> ELSE <<>>)
            \o SchemPaletteTag(palette, n - 1)

WriteSchem(src) ==
    [ext  |-> "schem",
     root |-> [Width        |-> src.width,
               Height       |-> src.height,
               Length       |-> src.length,
               hasPalette   |-> TRUE,
               Palette      |-> SchemPaletteTag(src.palette, Len(src.palette)),
               hasBlockData |-> TRUE,
               BlockData    |-> LET b == EncodeVarintArray(src.cells)
                                IN  [i \in 1..Len(b) |-> ToInt8(b[i])]]]

WriteLitematic(src) ==
    LET bitsPerEntry == Max(2, CeilLog2(Len(src.palette)))
    IN  [ext  |-> "litematic",
         root |-> [hasRegions |-> TRUE,
                   Regions |-> << [Size   |-> [x |-> 0 - src.width, y |-> src.height,
                                               z |-> 0 - src.length],
                                   hasPalette |-> TRUE,
                                   BlockStatePalette |->
                                       [i \in 1..Len(src.palette) |->
                                           [Name       |-> src.palette[i].Name,
                                            Properties |-> src.palette[i].Properties]],
                                   hasBlockStates |-> TRUE,
                                   BlockStates |->
                                       IF src.format = "spanning"
                                       THEN PackSpanning(src.cells, bitsPerEntry)
                                       ELSE PackNonSpanning(src.cells, bitsPerEntry)] >>]]

WriteFile(src) == IF src.format = "schem" THEN WriteSchem(src) ELSE WriteLitematic(src)

(***************************************************************************)
(* app.js: floodFill                                                       *)
(*                                                                         *)
(* The frame is [pc, startX, startZ, baseId, cells, queue, shifts, minX,   *)
(* maxX, minZ, maxZ, result], shifts the number of queue.shift() calls so  *)
(* far.  A key `${x},${z}` of the cell set is the pair <<x, z>>: the two   *)
(* render the same string only when they are equal.                        *)
(***************************************************************************)

NoRegion == [null |-> TRUE]

\* highlightedGroup = null; a region's is [null |-> FALSE, cells |-> ...]
NoGroup == [null |-> TRUE]

\* new Map()
NoLayers == [layer \in {} |-> {}]

\* if (!baseId) return null, the air test left out
StartsNoRegionNullOnly(baseId) == Falsy(baseId)

\* if (!baseId || isAir('minecraft:' + baseId)) return null
StartsNoRegion(baseId) == Falsy(baseId) \/ IsAir(MinecraftPrefix \o baseId)

\* the eight cells around (cx, cz)
NeighborsDiagonal(cx, cz) ==
    << <<cx - 1, cz>>, <<cx + 1, cz>>, <<cx, cz - 1>>, <<cx, cz + 1>>,
       <<cx - 1, cz - 1>>, <<cx + 1, cz + 1>>, <<cx + 1, cz - 1>>, <<cx - 1, cz + 1>> >>

\* const neighbors = [[cx - 1, cz], [cx + 1, cz], [cx, cz - 1], [cx, cz + 1]]
Neighbors(cx, cz) ==
    << <<cx - 1, cz>>, <<cx + 1, cz>>, <<cx, cz - 1>>, <<cx, cz + 1>> >>

\* the neighbour loop with the box grown towards larger x and z only
RECURSIVE VisitNeighborsNoMin(_, _, _, _)
VisitNeighborsNoMin(g, layer, f, neighbors) ==
    IF neighbors = <<>> THEN f
    ELSE LET nx == Head(neighbors)[1]
             nz == Head(neighbors)[2]
         IN  IF <<nx, nz>> \in f.cells
             THEN VisitNeighborsNoMin(g, layer, f, Tail(neighbors))
             ELSE IF nx < 0 \/ nx >= g.width \/ nz < 0 \/ nz >= g.length
             THEN VisitNeighborsNoMin(g, layer, f, Tail(neighbors))
             ELSE IF GetBaseBlockId(GetBlock(g, nx, layer, nz)) = f.baseId
             THEN VisitNeighborsNoMin(g, layer,
                                      [f EXCEPT !.cells = @ \cup {<<nx, nz>>},
                                                !.queue = Append(@, <<nx, nz>>),
                                                !.maxX = IF nx > @ THEN nx ELSE @,
                                                !.maxZ = IF nz > @ THEN nz ELSE @],
                                      Tail(neighbors))
             ELSE VisitNeighborsNoMin(g, layer, f, Tail(neighbors))

\* the neighbour loop without cells.add(key): a matching neighbour is queued
\* again each time it is met
RECURSIVE VisitNeighborsNoAdd(_, _, _, _)
VisitNeighborsNoAdd(g, layer, f, neighbors) ==
    IF neighbors = <<>> THEN f
    ELSE LET nx == Head(neighbors)[1]
             nz == Head(neighbors)[2]
         IN  IF <<nx, nz>> \in f.cells
             THEN VisitNeighborsNoAdd(g, layer, f, Tail(neighbors))
             ELSE IF nx < 0 \/ nx >= g.width \/ nz < 0 \/ nz >= g.length
             THEN VisitNeighborsNoAdd(g, layer, f, Tail(neighbors))
             ELSE IF GetBaseBlockId(GetBlock(g, nx, layer, nz)) = f.baseId
             THEN VisitNeighborsNoAdd(g, layer,
                                      [f EXCEPT !.queue = Append(@, <<nx, nz>>),
                                                !.minX = IF nx < @ THEN nx ELSE @,
                                                !.maxX = IF nx > @ THEN nx ELSE @,
                                                !.minZ = IF nz < @ THEN nz ELSE @,
                                                !.maxZ = IF nz > @ THEN nz ELSE @],
                                      Tail(neighbors))
             ELSE VisitNeighborsNoAdd(g, layer, f, Tail(neighbors))

\* for (const [nx, nz] of neighbors) { ... } on the frame f
RECURSIVE VisitNeighbors(_, _, _, _)
VisitNeighbors(g, layer, f, neighbors) ==
    IF neighbors = <<>> THEN f
    ELSE LET nx == Head(neighbors)[1]
             nz == Head(neighbors)[2]
         IN  IF <<nx, nz>> \in f.cells
             THEN VisitNeighbors(g, layer, f, Tail(neighbors))
             ELSE IF nx < 0 \/ nx >= g.width \/ nz < 0 \/ nz >= g.length
             THEN VisitNeighbors(g, layer, f, Tail(neighbors))
             ELSE IF GetBaseBlockId(GetBlock(g, nx, layer, nz)) = f.baseId
             THEN VisitNeighbors(g, layer,
                                 [f EXCEPT !.cells = @ \cup {<<nx, nz>>},
                                           !.queue = Append(@, <<nx, nz>>),
                                           !.minX = IF nx < @ THEN nx ELSE @,
                                           !.maxX = IF nx > @ THEN nx ELSE @,
                                           !.minZ = IF nz < @ THEN nz ELSE @,
                                           !.maxZ = IF nz > @ THEN nz ELSE @],
                                 Tail(neighbors))
             ELSE VisitNeighbors(g, layer, f, Tail(neighbors))

\* floodFill(startX, startZ) up to the while loop
FloodFillCall(startX, startZ) ==
    /\ schematic.loaded
    /\ fill.pc = "idle"
    /\ LET baseId == GetBaseBlockId(GetBlock(schematic, startX, currentLayer, startZ))
       IN  fill' = [pc     |-> IF StartsNoRegion(baseId) THEN "returned" ELSE "loop",
                    startX |-> startX,
                    startZ |-> startZ,
                    baseId |-> baseId,
                    cells  |-> IF StartsNoRegion(baseId) THEN {} ELSE {<<startX, startZ>>},
                    queue  |-> IF StartsNoRegion(baseId) THEN <<>> ELSE <<<<startX, startZ>>>>,
                    shifts |-> 0,
                    minX   |-> startX,
                    maxX   |-> startX,
                    minZ   |-> startZ,
                    maxZ   |-> startZ,
                    result |-> NoRegion]
    /\ UNCHANGED <<currentLayer, airVars, varintVars, parseVars, stackVars, viewVars, loadVars, sceneVars>>

\* one iteration of while (queue.length > 0)
FloodFillStep ==
    /\ fill.pc = "loop"
    /\ Len(fill.queue) > 0
    /\ LET cx == Head(fill.queue)[1]
           cz == Head(fill.queue)[2]
       IN  fill' = VisitNeighbors(schematic, currentLayer,
                                  [fill EXCEPT !.queue = Tail(@), !.shifts = @ + 1],
                                  Neighbors(cx, cz))
    /\ UNCHANGED <<currentLayer, airVars, varintVars, parseVars, stackVars, viewVars, loadVars, sceneVars>>

\* the loop's exit and the return
FloodFillReturn ==
    /\ fill.pc = "loop"
    /\ Len(fill.queue) = 0
    /\ fill' = [fill EXCEPT !.pc = "returned",
                            !.result = [null  |-> FALSE,
                                        cells |-> fill.cells,
                                        minX  |-> fill.minX,
                                        minZ  |-> fill.minZ,
                                        maxX  |-> fill.maxX,
                                        maxZ  |-> fill.maxZ,
                                        w     |-> fill.maxX - fill.minX + 1,
                                        h     |-> fill.maxZ - fill.minZ + 1,
                                        count |-> Cardinality(fill.cells)]]
    /\ UNCHANGED <<currentLayer, airVars, varintVars, parseVars, stackVars, viewVars, loadVars, sceneVars>>

(***************************************************************************)
(* Bounds                                                                  *)
(***************************************************************************)

MaxCount == 2     \* elements of a varint buffer
MaxCut == 1       \* bytes missing from the end of a varint buffer
MaxWidth == 4     \* Width of a written file
MaxHeight == 4    \* Height of a written file
MaxLength == 4    \* Length of a written file
MaxStride == 2    \* step of the index pattern a file's cells are filled with
MaxGridWidth == 2   \* dimensions of the grids getBlock is queried on
MaxGridHeight == 3
MaxGridLength == 3
MaxFloodWidth == 3  \* dimensions of the grids floodFill runs on
MaxFloodHeight == 2
MaxFloodLength == 3
MaxFloodCells == 9  \* cells of a grid floodFill runs on

MaxStackCount == 200  \* the largest count formatStacks is called with
MaxTimers == 1        \* highlight timers of switchTo3D pending at once
MaxLoads == 2         \* loadFile calls in flight at once

(***************************************************************************)
(* Values of the variables a specification does not use                    *)
(***************************************************************************)

NotDone == [done |-> FALSE]

AirIdle ==
    /\ airCase = [ns |-> "none", id |-> "air", style |-> "lower", suffix |-> <<>>]
    /\ blockState = Null
    /\ airResult = NotDone

VarintIdle ==
    /\ original = [values |-> <<>>, cut |-> 0]
    /\ bytes = <<>>
    /\ expectedCount = 0
    /\ decoded = NotDone

StackIdle ==
    /\ stackCount = 0
    /\ stackText = NotDone

(***************************************************************************)
(* The air classifiers applied to descriptors                              *)
(***************************************************************************)

AirIds == {"air", "cave_air", "void_air", "stone", "oak_stairs", "dirt"}
LetterCases == {"lower", "capital", "upper"}
PropertySuffixes ==
    { <<>>,
      <<"[", "facing", "=", "north", "]">>,
      <<"[", "facing", "=", "south", ",", "half", "=", "top", "]">> }

\* a lower-case token written in a letter case
StyledToken(t, style) ==
    IF style = "lower" THEN t
    ELSE IF style = "capital"
    THEN CASE t = "minecraft"  -> "Minecraft"
           [] t = "air"        -> "Air"
           [] t = "cave_air"   -> "Cave_Air"
           [] t = "void_air"   -> "Void_Air"
           [] t = "stone"      -> "Stone"
           [] t = "oak_stairs" -> "Oak_Stairs"
           [] t = "dirt"       -> "Dirt"
    ELSE CASE t = "minecraft"  -> "MINECRAFT"
           [] t = "air"        -> "AIR"
           [] t = "cave_air"   -> "CAVE_AIR"
           [] t = "void_air"   -> "VOID_AIR"
           [] t = "stone"      -> "STONE"
           [] t = "oak_stairs" -> "OAK_STAIRS"
           [] t = "dirt"       -> "DIRT"

\* the descriptor string of a case
Descriptor(c) ==
    (IF c.ns = "none" THEN <<>> ELSE <<StyledToken(c.ns, c.style), ":">>)
        \o <<StyledToken(c.id, c.style)>> \o c.suffix

AirCases == [ns : {"minecraft", "none"}, id : AirIds, style : LetterCases,
             suffix : PropertySuffixes]

ClassifyAir ==
    /\ ~airResult.done
    /\ airResult' = [done      |-> TRUE,
                     isAir     |-> IsAir(blockState),
                     schem     |-> SchemStateIsAir(blockState),
                     litematic |-> LitematicStateIsAir(blockState)]
    /\ UNCHANGED <<airCase, blockState>>
    /\ UNCHANGED <<varintVars, parseVars, floodVars, stackVars, viewVars, loadVars, sceneVars>>

(***************************************************************************)
(* decodeVarintArray applied to written buffers                            *)
(***************************************************************************)

VarintSamples ==
    {0, 1, 127, 128, 255, 300, 16383, 16384, 2097151, 2097152,
     268435455, 268435456, 2147483647}

RECURSIVE SeqsUpTo(_, _)
SeqsUpTo(S, n) ==
    IF n = 0 THEN {<<>>}
    ELSE LET shorter == SeqsUpTo(S, n - 1)
         IN  shorter \cup {Append(q, v) : q \in {r \in shorter : Len(r) = n - 1}, v \in S}

CallDecodeVarintArray ==
    /\ ~decoded.done
    /\ LET r == DecodeVarintArray(bytes, expectedCount)
       IN  decoded' = [done |-> TRUE, ok |-> r.ok, value |-> r.value, index |-> r.index]
    /\ UNCHANGED <<original, bytes, expectedCount>>
    /\ UNCHANGED <<airVars, parseVars, floodVars, stackVars, viewVars, loadVars, sceneVars>>

(***************************************************************************)
(* Files                                                                   *)
(***************************************************************************)

NoSchematic == [loaded |-> FALSE]
NoError == [thrown |-> FALSE]
NoProbe == [asked |-> FALSE]

PaletteOne == <<PlainEntry(StoneName)>>
PaletteThree == <<PlainEntry(AirName), PlainEntry(StoneName), StairsEntry("north")>>
PaletteFive ==
    <<PlainEntry(AirName), PlainEntry(StoneName), PlainEntry(<<"air">>),
      StairsEntry("south"), PlainEntry(DirtName)>>
PaletteHole == <<PlainEntry(StoneName), HoleEntry, PlainEntry(DirtName)>>

Formats == {"schem", "spanning", "nonspanning"}

PalettesOf(format) ==
    IF format = "schem" THEN {PaletteOne, PaletteThree, PaletteFive, PaletteHole}
    ELSE {PaletteOne, PaletteThree, PaletteFive}

\* how many index values the cells of a file take: the palette's, or one
\* more where the encoding has room for it
IndexRanges(palette, format) ==
    {Len(palette)} \cup
    (IF format = "schem" \/ Len(palette) + 1 <= Pow2(Max(2, CeilLog2(Len(palette))))
     THEN {Len(palette) + 1} ELSE {})

PatternCells(n, stride, offset, range) ==
    [i \in 1..n |-> (stride * (i - 1) + offset) % range]

PatternSources(format, w, h, l) ==
    UNION { UNION { { [format  |-> format,
                       width   |-> w,
                       height  |-> h,
                       length  |-> l,
                       palette |-> palette,
                       cells   |-> PatternCells(w * h * l, stride, offset, range)]
                      : stride \in 0..MaxStride, offset \in 0..(range - 1) }
                    : range \in IndexRanges(palette, format) }
            : palette \in PalettesOf(format) }

ParseSources ==
    UNION { PatternSources(format, w, h, l)
            : format \in Formats, w \in 1..MaxWidth, h \in 1..MaxHeight, l \in 1..MaxLength }

ParseIdle ==
    /\ source = [format |-> "schem", width |-> 0, height |-> 0, length |-> 0,
                 palette |-> <<>>, cells |-> <<>>]
    /\ nbtData = [ext |-> "none"]
    /\ schematic = NoSchematic
    /\ parseError = NoError
    /\ probe = NoProbe
    /\ materialsData = NotDone

FloodIdle ==
    /\ currentLayer = 0
    /\ fill = [pc |-> "idle"]

(***************************************************************************)
(* viewer3d.js: the instanced meshes.  A mesh is [positions, colors]:      *)
(* blockGroups' position list for its key and, instance by instance, the   *)
(* intensity written to its three colour channels, in hundredths.          *)
(***************************************************************************)

Bright == 100   \* intensity 1.0
Dim == 8        \* intensity 0.08

\* setHighlightLayer3D(layerIndex, isEnabled) on the meshes of the scene
SetHighlightLayer3D(meshes, layerIndex, isEnabled) ==
    [m \in 1..Len(meshes) |->
        [meshes[m] EXCEPT !.colors =
            [i \in 1..Len(@) |->
                IF isEnabled
                THEN IF meshes[m].positions[i][2] = layerIndex THEN Bright ELSE Dim
                ELSE Bright]]]

\* the cell visited n-th (0-based) by the loops over y, z and x, as <<x, y, z>>
NthPosition(g, n) ==
    <<n % g.width, n \div (g.width * g.length), (n \div g.width) % g.length>>

\* the cells of the first pass that are not air, in the order visited
RECURSIVE SolidPositions(_, _)
SolidPositions(g, n) ==
    IF n >= g.width * g.height * g.length THEN <<>>
    ELSE LET p == NthPosition(g, n)
         IN  (IF IsAir(GetBlock(g, p[1], p[2], p[3])) THEN <<>> ELSE <<p>>)
                \o SolidPositions(g, n + 1)

\* the key a block is grouped under: its texture and tint, or its colour; both
\* are looked up by the block's base id
GroupKey(g, p) == GetBaseBlockId(GetBlock(g, p[1], p[2], p[3]))

\* the position lists of `groups`, one per key, keys in the order first met
RECURSIVE GroupPositions(_, _)
GroupPositions(g, positions) ==
    IF positions = <<>> THEN <<>>
    ELSE LET key == GroupKey(g, Head(positions))
         IN  <<SelectSeq(positions, LAMBDA p : GroupKey(g, p) = key)>>
                \o GroupPositions(g, SelectSeq(positions, LAMBDA p : GroupKey(g, p) # key))

\* new THREE.InstancedMesh(...) with colorArray.fill(1.0)
NewMesh(positions) ==
    [positions |-> positions, colors |-> [i \in 1..Len(positions) |-> Bright]]

NoBuild == [pc |-> "idle"]

SceneIdle ==
    /\ chkHighlight3d = FALSE
    /\ highlightTimers = 0
    /\ build = NoBuild
    /\ instancedMeshes = <<>>

(***************************************************************************)
(* app.js: what loadFile and onSchematicLoaded show                        *)
(***************************************************************************)

NoFile == [chosen |-> FALSE]
\* the panels hidden, their fields not yet written
NoInfo ==
    [shown |-> FALSE, file |-> Null, name |-> Null, width |-> 0, length |-> 0,
     height |-> 0, blocks |-> 0]

\* the file badge and the info panel after onSchematicLoaded(fileName)
InfoOf(g, fileName) ==
    [shown  |-> TRUE,
     file   |-> fileName,
     name   |-> g.name,
     width  |-> g.width,
     length |-> g.length,
     height |-> g.height,
     blocks |-> g.totalNonAir]

\* the ids preloadTextures looks textures up for
TextureIds(paletteList) ==
    {GetBaseBlockId(paletteList[i]) : i \in {j \in 1..Len(paletteList) : ~IsAir(paletteList[j])}}

LoadIdle ==
    /\ loads = <<>>
    /\ selected = NoFile
    /\ loadingActive = FALSE
    /\ infoPanel = NoInfo
    /\ layerSliderMax = 0
    /\ textureCache = {}

ViewIdle ==
    /\ highlightedGroup = NoGroup
    /\ highlightBounds = NoRegion
    /\ lastHoverX = 0 - 1
    /\ lastHoverZ = 0 - 1
    /\ placedBlocks = NoLayers
    /\ is3DMode = FALSE
    /\ is3DModelBuilt = FALSE

\* file.name of the file nbtData was read from
FileName(file) == <<"build", ".", file.ext>>

\* file.name.replace(/\.[^.]+$/, ''): a last "." with characters after it, and
\* those characters, removed
StripExtension(fileName) ==
    IF Len(fileName) >= 2 /\ fileName[Len(fileName) - 1] = "." /\ fileName[Len(fileName)] # "."
    THEN SubSeq(fileName, 1, Len(fileName) - 2)
    ELSE fileName

\* the name taken from the file written over the first palette entry
NameFromFileIntoPalette(g, fileName) ==
    IF g.name = Unnamed
    THEN [g EXCEPT !.paletteList = [i \in 1..Len(@) |->
                                       IF i = 1 THEN StripExtension(fileName) ELSE @[i]]]
    ELSE g

\* if (schematic.name === 'Unnamed') schematic.name = file.name.replace(...)
NameFromFile(g, fileName) ==
    IF g.name = Unnamed THEN [g EXCEPT !.name = StripExtension(fileName)] ELSE g

\* loadFile from the parse on, no other handler running before it is through:
\* the adapter named by the extension, the name taken from the file's when the
\* adapter found none, preloadTextures, then onSchematicLoaded (the badge and
\* the info panel, computeMaterials(), currentLayer = 0, the slider's range)
\* and showLoading(false); what the adapter throws is caught and alerted, and
\* the state stays as it was
LoadFile ==
    /\ ~schematic.loaded
    /\ ~parseError.thrown
    /\ LET r == IF nbtData.ext = "schem" THEN ParseSchem(nbtData.root)
                ELSE ParseLitematic(nbtData.root)
           g == [loaded       |-> TRUE,
                 format       |-> r.format,
                 width        |-> r.width,
                 height       |-> r.height,
                 length       |-> r.length,
                 name         |-> r.name,
                 paletteList  |-> r.paletteList,
                 blockIndices |-> r.blockIndices,
                 totalNonAir  |-> r.totalNonAir]
       IN  IF r.ok
           THEN /\ schematic' = NameFromFile(g, FileName(nbtData))
                /\ textureCache' = textureCache \cup TextureIds(schematic'.paletteList)
                /\ infoPanel' = InfoOf(schematic', FileName(nbtData))
                /\ materialsData' = [done |-> TRUE, list |-> ComputeMaterialsList(schematic')]
                /\ currentLayer' = 0
                /\ layerSliderMax' = schematic'.height - 1
                /\ UNCHANGED parseError
           ELSE /\ parseError' = [thrown |-> TRUE, message |-> r.error]
                /\ UNCHANGED <<schematic, materialsData, currentLayer>>
                /\ UNCHANGED <<textureCache, infoPanel, layerSliderMax>>
    /\ loadingActive' = FALSE
    /\ UNCHANGED <<loads, selected>>
    /\ UNCHANGED <<source, nbtData, probe, fill>>
    /\ UNCHANGED <<airVars, varintVars, stackVars, viewVars, sceneVars>>

\* changeLayer(delta), from the layer buttons and the arrow keys
ChangeLayer(delta) ==
    /\ schematic.loaded
    /\ fill.pc = "idle"
    /\ LET newLayer == Max(0, Min(schematic.height - 1, currentLayer + delta))
       IN  /\ newLayer # currentLayer
           /\ currentLayer' = newLayer
    /\ highlightedGroup' = NoGroup
    /\ highlightBounds' = NoRegion
    /\ instancedMeshes' = IF is3DMode
                          THEN SetHighlightLayer3D(instancedMeshes, currentLayer', chkHighlight3d)
                          ELSE instancedMeshes
    /\ UNCHANGED <<hoverVars, placedBlocks, is3DMode, is3DModelBuilt>>
    /\ UNCHANGED <<chkHighlight3d, highlightTimers, build>>
    /\ UNCHANGED <<fill, airVars, varintVars, parseVars, stackVars, loadVars>>

\* a press of one of the two layer buttons
StepLayer == \E delta \in {0 - 1, 1} : ChangeLayer(delta)

\* a getBlock call from outside the adapter, its outcome kept
GetBlockQuery(x, y, z) ==
    /\ LET r == GetBlockCall(schematic, x, y, z)
       IN  probe' = [asked |-> TRUE, x |-> x, y |-> y, z |-> z,
                     ret |-> r.ret, reads |-> r.reads]
    /\ UNCHANGED <<source, nbtData, schematic, parseError, materialsData>>
    /\ UNCHANGED <<airVars, varintVars, floodVars, stackVars, viewVars, loadVars, sceneVars>>

\* one query at any coordinate from one below to one past each dimension
QueryGrid ==
    /\ schematic.loaded
    /\ ~probe.asked
    /\ \E x \in (0 - 1)..schematic.width, y \in (0 - 1)..schematic.height,
          z \in (0 - 1)..schematic.length : GetBlockQuery(x, y, z)

GridSources ==
    UNION { PatternSources(format, w, h, l)
            : format \in Formats, w \in 1..MaxGridWidth, h \in 1..MaxGridHeight,
              l \in 1..MaxGridLength }

(***************************************************************************)
(* Damaged files: a written file with fields removed, its byte buffer or   *)
(* word array cut short, or its dimensions zeroed or negated               *)
(***************************************************************************)

SchemFields == {"Palette", "BlockData"}
LitematicFields == {"Regions", "Region", "BlockStatePalette", "BlockStates"}

\* the factors the three dimensions of a file are multiplied by
DimensionScales ==
    { <<1, 1, 1>>, <<0, 1, 1>>, <<1, 0, 1>>, <<1, 1, 0>>,
      <<0 - 1, 1, 1>>, <<0 - 1, 1, 0 - 1>>, <<0 - 1, 0 - 1, 0 - 1>> }

DamagesOf(format) ==
    [missing : SUBSET (IF format = "schem" THEN SchemFields ELSE LitematicFields),
     cut     : 0..MaxCut,
     scale   : DimensionScales]

\* seq without its last n elements
DropLast(seq, n) == SubSeq(seq, 1, Max(0, Len(seq) - n))

DamageSchem(root, dmg) ==
    [Width        |-> root.Width * dmg.scale[1],
     Height       |-> root.Height * dmg.scale[2],
     Length       |-> root.Length * dmg.scale[3],
     hasPalette   |-> "Palette" \notin dmg.missing,
     Palette      |-> IF "Palette" \in dmg.missing THEN <<>> ELSE root.Palette,
     hasBlockData |-> "BlockData" \notin dmg.missing,
     BlockData    |-> IF "BlockData" \in dmg.missing THEN <<>>
                      ELSE DropLast(root.BlockData, dmg.cut)]

DamageLitematic(root, dmg) ==
    LET region == root.Regions[1]
    IN  [hasRegions |-> "Regions" \notin dmg.missing,
         Regions |->
             IF "Regions" \in dmg.missing \/ "Region" \in dmg.missing THEN <<>>
             ELSE << [Size   |-> [x |-> region.Size.x * dmg.scale[1],
                                  y |-> region.Size.y * dmg.scale[2],
                                  z |-> region.Size.z * dmg.scale[3]],
                      hasPalette |-> "BlockStatePalette" \notin dmg.missing,
                      BlockStatePalette |->
                          IF "BlockStatePalette" \in dmg.missing THEN <<>>
                          ELSE region.BlockStatePalette,
                      hasBlockStates |-> "BlockStates" \notin dmg.missing,
                      BlockStates |->
                          IF "BlockStates" \in dmg.missing THEN <<>>
                          ELSE DropLast(region.BlockStates, dmg.cut)] >>]

DamageFile(file, dmg) ==
    [ext  |-> file.ext,
     root |-> IF file.ext = "schem" THEN DamageSchem(file.root, dmg)
              ELSE DamageLitematic(file.root, dmg)]

DamagedDims == { <<1, 1, 1>>, <<2, 1, 2>>, <<2, 3, 4>>, <<MaxWidth, MaxHeight, MaxLength>> }

\* well-formed files damaged in one way or in several
DamagedSources ==
    UNION { { [format  |-> format,
               width   |-> d[1],
               height  |-> d[2],
               length  |-> d[3],
               palette |-> palette,
               cells   |-> PatternCells(d[1] * d[2] * d[3], 1, 0, Len(palette)),
               damage  |-> dmg]
              : palette \in {PaletteThree, PaletteFive}, d \in DamagedDims,
                dmg \in DamagesOf(format) }
            : format \in Formats }

\* a palette entry with the block identifier it stands for
FloodEntry(name, suffix, base) ==
    [present |-> TRUE, Name |-> name, Properties |-> suffix,
     text |-> name \o (IF suffix = <<>> THEN <<>>
                       ELSE <<"[", suffix[1].k, "=", suffix[1].v, "]">>),
     base |-> base]

Facing(v) == <<[k |-> "facing", v |-> v]>>

FloodPalettesOf(format) ==
    IF format = "schem"
    THEN { <<FloodEntry(AirName, <<>>, <<"air">>), FloodEntry(StoneName, <<>>, <<"stone">>)>>,
           <<FloodEntry(StoneName, <<>>, <<"stone">>), FloodEntry(<<"stone">>, <<>>, <<"stone">>)>>,
           <<FloodEntry(<<"cave_air">>, <<>>, <<"cave_air">>),
             FloodEntry(StoneName, <<>>, <<"stone">>)>> }
    ELSE { <<FloodEntry(StairsName, Facing("north"), <<"oak_stairs">>),
             FloodEntry(StairsName, Facing("south"), <<"oak_stairs">>)>>,
           <<FloodEntry(StoneName, <<>>, <<"stone">>), FloodEntry(DirtName, <<>>, <<"dirt">>)>>,
           <<FloodEntry(<<"MINECRAFT", ":", "STONE">>, <<>>, <<"stone">>),
             FloodEntry(AirName, <<>>, <<"air">>)>> }

\* every assignment of a two-entry palette to the cells of a small grid
FloodSources ==
    UNION { { [format  |-> format,
               width   |-> d[1],
               height  |-> d[2],
               length  |-> d[3],
               palette |-> palette,
               cells   |-> cells]
              : palette \in FloodPalettesOf(format),
                cells \in [1..(d[1] * d[2] * d[3]) -> {0, 1}] }
            : format \in {"schem", "nonspanning"},
              d \in {t \in (1..MaxFloodWidth) \X (1..MaxFloodHeight) \X (1..MaxFloodLength) :
                        t[1] * t[2] * t[3] <= MaxFloodCells} }

\* floodFill called on any cell of the layer or just off its edge (the pointer
\* handlers call it on the in-grid cells isAir rejects)
StartFloodFill ==
    /\ schematic.loaded
    /\ \E startX \in (0 - 1)..schematic.width, startZ \in (0 - 1)..schematic.length :
          FloodFillCall(startX, startZ)

(***************************************************************************)
(* app.js: the pointer, layer and view handlers.  Each runs to completion, *)
(* so floodFill is computed inside the handler that calls it.              *)
(***************************************************************************)

\* while (queue.length > 0) { ... } on the frame f
RECURSIVE FloodFillLoop(_, _, _)
FloodFillLoop(g, layer, f) ==
    IF Len(f.queue) = 0 THEN f
    ELSE LET cx == Head(f.queue)[1]
             cz == Head(f.queue)[2]
         IN  FloodFillLoop(g, layer,
                           VisitNeighbors(g, layer, [f EXCEPT !.queue = Tail(@)],
                                          Neighbors(cx, cz)))

\* floodFill(startX, startZ) on the grid g at the layer shown
FloodFill(g, layer, startX, startZ) ==
    LET baseId == GetBaseBlockId(GetBlock(g, startX, layer, startZ))
    IN  IF StartsNoRegion(baseId) THEN NoRegion
        ELSE LET f == FloodFillLoop(g, layer,
                                    [baseId |-> baseId,
                                     cells  |-> {<<startX, startZ>>},
                                     queue  |-> <<<<startX, startZ>>>>,
                                     minX   |-> startX,
                                     maxX   |-> startX,
                                     minZ   |-> startZ,
                                     maxZ   |-> startZ])
             IN  [null  |-> FALSE,
                  cells |-> f.cells,
                  minX  |-> f.minX,
                  minZ  |-> f.minZ,
                  maxX  |-> f.maxX,
                  maxZ  |-> f.maxZ,
                  w     |-> f.maxX - f.minX + 1,
                  h     |-> f.maxZ - f.minZ + 1,
                  count |-> Cardinality(f.cells)]

\* togglePlaced with every cell of the group flipped on its own
TogglePlacedEachCell(placed, layer, cells) ==
    LET layerSet == IF layer \in DOMAIN placed THEN placed[layer] ELSE {}
    IN  [l \in DOMAIN placed \cup {layer} |->
            IF l # layer THEN placed[l]
            ELSE (layerSet \ cells) \cup (cells \ layerSet)]

\* togglePlaced(layer, cells) on the map placed
TogglePlaced(placed, layer, cells) ==
    LET layerSet  == IF layer \in DOMAIN placed THEN placed[layer] ELSE {}
        allPlaced == cells \subseteq layerSet
    IN  [l \in DOMAIN placed \cup {layer} |->
            IF l # layer THEN placed[l]
            ELSE IF allPlaced THEN layerSet \ cells
            ELSE layerSet \cup cells]

\* the mousemove listener outside a drag: updateTooltip(e) with the pointer
\* over the cell (bx, bz)
Hover(bx, bz) ==
    /\ ~is3DMode
    /\ schematic.loaded
    /\ fill.pc = "idle"
    /\ IF bx < 0 \/ bx >= schematic.width \/ bz < 0 \/ bz >= schematic.length
       THEN IF ~highlightedGroup.null
            THEN /\ highlightedGroup' = NoGroup
                 /\ highlightBounds' = NoRegion
                 /\ lastHoverX' = 0 - 1
                 /\ lastHoverZ' = 0 - 1
            ELSE UNCHANGED <<highlightedGroup, highlightBounds, hoverVars>>
       ELSE IF bx # lastHoverX \/ bz # lastHoverZ
            THEN /\ lastHoverX' = bx
                 /\ lastHoverZ' = bz
                 /\ LET result == IF IsAir(GetBlock(schematic, bx, currentLayer, bz))
                                  THEN NoRegion
                                  ELSE FloodFill(schematic, currentLayer, bx, bz)
                    IN  /\ highlightedGroup' = IF result.null THEN NoGroup
                                               ELSE [null |-> FALSE, cells |-> result.cells]
                        /\ highlightBounds' = result
            ELSE UNCHANGED <<highlightedGroup, highlightBounds, hoverVars>>
    /\ UNCHANGED <<placedBlocks, is3DMode, is3DModelBuilt>>
    /\ UNCHANGED <<airVars, varintVars, parseVars, floodVars, stackVars, loadVars, sceneVars>>

\* the mouseup listener after a press without a drag, the pointer over the
\* cell (bx, bz)
Click(bx, bz) ==
    /\ schematic.loaded
    /\ fill.pc = "idle"
    /\ LET inside == bx >= 0 /\ bx < schematic.width /\ bz >= 0 /\ bz < schematic.length
           group  == IF inside /\ ~IsAir(GetBlock(schematic, bx, currentLayer, bz))
                     THEN FloodFill(schematic, currentLayer, bx, bz)
                     ELSE NoRegion
       IN  IF group.null
           THEN UNCHANGED placedBlocks
           ELSE placedBlocks' = TogglePlaced(placedBlocks, currentLayer, group.cells)
    /\ UNCHANGED <<highlightedGroup, highlightBounds, hoverVars, is3DMode, is3DModelBuilt>>
    /\ UNCHANGED <<airVars, varintVars, parseVars, floodVars, stackVars, loadVars, sceneVars>>

\* the pointer over any cell of the layer or just off its edge
MovePointer ==
    /\ schematic.loaded
    /\ \E bx \in (0 - 1)..schematic.width, bz \in (0 - 1)..schematic.length : Hover(bx, bz)

\* a click on any cell of the layer or just off its edge
ClickPointer ==
    /\ schematic.loaded
    /\ \E bx \in (0 - 1)..schematic.width, bz \in (0 - 1)..schematic.length : Click(bx, bz)

\* the layer slider's input listener, the slider moved to a value of its range
\* (a range whose max is below its min holds the min alone)
SlideLayer ==
    /\ schematic.loaded
    /\ fill.pc = "idle"
    /\ \E value \in 0..Max(0, layerSliderMax) : currentLayer' = value
    /\ highlightedGroup' = NoGroup
    /\ highlightBounds' = NoRegion
    /\ instancedMeshes' = IF is3DMode
                          THEN SetHighlightLayer3D(instancedMeshes, currentLayer', chkHighlight3d)
                          ELSE instancedMeshes
    /\ UNCHANGED <<hoverVars, placedBlocks, is3DMode, is3DModelBuilt>>
    /\ UNCHANGED <<chkHighlight3d, highlightTimers, build>>
    /\ UNCHANGED <<fill, airVars, varintVars, parseVars, stackVars, loadVars>>

\* the 3D button: switchTo3D(), which leaves a timer to apply the layer
\* highlight, and the first time build3DModelAsync(schematic) up to its first
\* await: clear3DModel()
View3D ==
    /\ schematic.loaded
    /\ ~is3DMode
    /\ highlightTimers < MaxTimers
    /\ is3DMode' = TRUE
    /\ highlightTimers' = highlightTimers + 1
    /\ is3DModelBuilt' = TRUE
    /\ IF ~is3DModelBuilt
       THEN /\ build.pc = "idle"
            /\ build' = [pc |-> "waiting", schematic |-> schematic]
            /\ instancedMeshes' = <<>>
       ELSE UNCHANGED <<build, instancedMeshes>>
    /\ UNCHANGED chkHighlight3d
    /\ UNCHANGED <<highlightedGroup, highlightBounds, hoverVars, placedBlocks>>
    /\ UNCHANGED <<airVars, varintVars, parseVars, floodVars, stackVars, loadVars>>

\* the 2D button: switchTo2D()
View2D ==
    /\ schematic.loaded
    /\ is3DMode' = FALSE
    /\ UNCHANGED <<highlightedGroup, highlightBounds, hoverVars, placedBlocks, is3DModelBuilt>>
    /\ UNCHANGED <<airVars, varintVars, parseVars, floodVars, stackVars, loadVars, sceneVars>>

\* closeSchematic(), from the file badge's button
CloseSchematic ==
    /\ schematic.loaded
    /\ schematic' = NoSchematic
    /\ highlightedGroup' = NoGroup
    /\ highlightBounds' = NoRegion
    /\ infoPanel' = [infoPanel EXCEPT !.shown = FALSE, !.file = Null]
    /\ instancedMeshes' = <<>>
    /\ is3DModelBuilt' = FALSE
    /\ is3DMode' = FALSE
    /\ UNCHANGED <<hoverVars, placedBlocks>>
    /\ UNCHANGED <<loads, selected, loadingActive, layerSliderMax, textureCache>>
    /\ UNCHANGED <<chkHighlight3d, highlightTimers, build>>
    /\ UNCHANGED <<source, nbtData, parseError, probe, materialsData>>
    /\ UNCHANGED <<airVars, varintVars, floodVars, stackVars>>

\* the written file with Metadata.Name set to name, or as it was written when
\* name is empty
NameFile(file, name) ==
    IF name = <<>> THEN file
    ELSE [ext  |-> file.ext,
          root |-> [Metadata |-> [Name |-> name]] @@ file.root]

\* the files at hand: a 2x2x2 build of stone with a stairs block, and a 2x1x2
\* one of dirt and air
AppFiles ==
    { [format  |-> "schem",
       width   |-> 2, height |-> 2, length |-> 2,
       palette |-> PaletteThree,
       cells   |-> <<1, 1, 1, 0, 1, 2, 1, 1>>,
       name    |-> <<"Castle">>],
      [format  |-> "nonspanning",
       width   |-> 2, height |-> 1, length |-> 2,
       palette |-> PaletteFive,
       cells   |-> <<4, 0, 4, 4>>,
       name    |-> <<>>] }

\* the 'Illuminate Layer' checkbox's change listener
ToggleHighlight ==
    /\ schematic.loaded
    /\ chkHighlight3d' = ~chkHighlight3d
    /\ instancedMeshes' = IF is3DMode
                          THEN SetHighlightLayer3D(instancedMeshes, currentLayer, chkHighlight3d')
                          ELSE instancedMeshes
    /\ UNCHANGED <<highlightTimers, build>>
    /\ UNCHANGED <<airVars, varintVars, parseVars, floodVars, stackVars, viewVars, loadVars>>

\* the callback switchTo3D left with setTimeout(..., 100)
HighlightTimer ==
    /\ highlightTimers > 0
    /\ highlightTimers' = highlightTimers - 1
    /\ instancedMeshes' = SetHighlightLayer3D(instancedMeshes, currentLayer, chkHighlight3d)
    /\ UNCHANGED <<chkHighlight3d, build>>
    /\ UNCHANGED <<airVars, varintVars, parseVars, floodVars, stackVars, viewVars, loadVars>>

\* build3DModelAsync after its first await: the first pass, and the second up
\* to its first yield, the first mesh added
BuildWake ==
    /\ build.pc = "waiting"
    /\ LET groups == GroupPositions(build.schematic, SolidPositions(build.schematic, 0))
       IN  /\ build' = [pc |-> "meshing", groups |-> groups, next |-> 2]
           /\ instancedMeshes' = IF groups = <<>> THEN instancedMeshes
                                 ELSE Append(instancedMeshes, NewMesh(groups[1]))
    /\ UNCHANGED <<chkHighlight3d, highlightTimers>>
    /\ UNCHANGED <<airVars, varintVars, parseVars, floodVars, stackVars, viewVars, loadVars>>

\* the second pass from one yield to the next: one more mesh
BuildAddMesh ==
    /\ build.pc = "meshing"
    /\ build.next <= Len(build.groups)
    /\ build' = [build EXCEPT !.next = @ + 1]
    /\ instancedMeshes' = Append(instancedMeshes, NewMesh(build.groups[build.next]))
    /\ UNCHANGED <<chkHighlight3d, highlightTimers>>
    /\ UNCHANGED <<airVars, varintVars, parseVars, floodVars, stackVars, viewVars, loadVars>>

\* after the last yield: the camera is set and the call is over
BuildFinish ==
    /\ build.pc = "meshing"
    /\ build.next > Len(build.groups)
    /\ build' = NoBuild
    /\ UNCHANGED <<chkHighlight3d, highlightTimers, instancedMeshes>>
    /\ UNCHANGED <<airVars, varintVars, parseVars, floodVars, stackVars, viewVars, loadVars>>

\* the compound tree read from a written file
FileTree(src) ==
    IF "name" \in DOMAIN src THEN NameFile(WriteFile(src), src.name) ELSE WriteFile(src)

\* seq without its i-th element
RemoveAt(seq, i) == SubSeq(seq, 1, i - 1) \o SubSeq(seq, i + 1, Len(seq))

\* loadFile(file) up to its first await: showLoading(true)
StartLoad(src) ==
    /\ Len(loads) < MaxLoads
    /\ loads' = Append(loads, [file |-> src, pc |-> "reading"])
    /\ selected' = [chosen |-> TRUE, file |-> src]
    /\ loadingActive' = TRUE
    /\ UNCHANGED <<infoPanel, layerSliderMax, textureCache>>
    /\ UNCHANGED <<airVars, varintVars, parseVars, floodVars, stackVars, viewVars, sceneVars>>

\* loadFile number i once the file is read: the adapter, the name fix-up, and
\* preloadTextures up to its await.  With every texture of the palette tried
\* before there is nothing to wait for and onSchematicLoaded follows at once;
\* an error is alerted and the overlay hidden.
ParseLoaded(i) ==
    /\ loads[i].pc = "reading"
    /\ source' = loads[i].file
    /\ nbtData' = FileTree(loads[i].file)
    /\ LET r == IF nbtData'.ext = "schem" THEN ParseSchem(nbtData'.root)
                ELSE ParseLitematic(nbtData'.root)
           g == [loaded       |-> TRUE,
                 format       |-> r.format,
                 width        |-> r.width,
                 height       |-> r.height,
                 length       |-> r.length,
                 name         |-> r.name,
                 paletteList  |-> r.paletteList,
                 blockIndices |-> r.blockIndices,
                 totalNonAir  |-> r.totalNonAir]
       IN  IF ~r.ok
           THEN /\ parseError' = [thrown |-> TRUE, message |-> r.error]
                /\ loads' = RemoveAt(loads, i)
                /\ loadingActive' = FALSE
                /\ UNCHANGED <<schematic, materialsData, currentLayer, infoPanel,
                               layerSliderMax>>
           ELSE /\ schematic' = NameFromFile(g, FileName(nbtData'))
                /\ UNCHANGED parseError
                /\ IF TextureIds(r.paletteList) \subseteq textureCache
                   THEN /\ infoPanel' = InfoOf(schematic', FileName(nbtData'))
                        /\ materialsData' =
                              [done |-> TRUE, list |-> ComputeMaterialsList(schematic')]
                        /\ currentLayer' = 0
                        /\ layerSliderMax' = schematic'.height - 1
                        /\ loads' = RemoveAt(loads, i)
                        /\ loadingActive' = FALSE
                   ELSE /\ loads' = [loads EXCEPT ![i] =
                                        [file |-> @.file, pc |-> "preloading",
                                         ids  |-> TextureIds(r.paletteList)]]
                        /\ UNCHANGED <<materialsData, currentLayer, infoPanel,
                                       layerSliderMax, loadingActive>>
    /\ UNCHANGED <<selected, textureCache, probe, fill>>
    /\ UNCHANGED <<airVars, varintVars, stackVars, viewVars, sceneVars>>

\* loadFile number i once its textures are tried: onSchematicLoaded(file.name)
\* on whatever `schematic` holds by now, then showLoading(false); with
\* `schematic` null computeMaterials throws after the badge and the panels are
\* up
FinishLoad(i) ==
    /\ loads[i].pc = "preloading"
    /\ textureCache' = textureCache \cup loads[i].ids
    /\ loads' = RemoveAt(loads, i)
    /\ loadingActive' = FALSE
    /\ LET fileName == FileName(FileTree(loads[i].file))
       IN  IF schematic.loaded
           THEN /\ infoPanel' = InfoOf(schematic, fileName)
                /\ materialsData' = [done |-> TRUE, list |-> ComputeMaterialsList(schematic)]
                /\ currentLayer' = 0
                /\ layerSliderMax' = schematic.height - 1
                /\ UNCHANGED parseError
           ELSE /\ infoPanel' = [infoPanel EXCEPT !.shown = TRUE, !.file = fileName]
                /\ parseError' = [thrown |-> TRUE, message |-> "TypeError"]
                /\ UNCHANGED <<materialsData, currentLayer, layerSliderMax>>
    /\ UNCHANGED <<selected, source, nbtData, schematic, probe, fill>>
    /\ UNCHANGED <<airVars, varintVars, stackVars, viewVars, sceneVars>>

\* a file dropped or picked: any of the files at hand
DropFile == \E src \in AppFiles : StartLoad(src)

\* a file dropped or picked while no other load is in flight
DropFileAlone ==
    /\ loads = <<>>
    /\ DropFile

\* a pending load moves on
ReadDone == \E i \in 1..Len(loads) : ParseLoaded(i)

PreloadDone == \E i \in 1..Len(loads) : FinishLoad(i)

\* files with and without a name of their own
SessionNames == { <<>>, <<"Castle">> }

SessionCells == { <<1, 1, 1, 0, 1, 2, 1, 1>> }

SessionSources ==
    { [format  |-> format,
       width   |-> 2,
       height  |-> 2,
       length  |-> 2,
       palette |-> PaletteThree,
       cells   |-> cells,
       name    |-> name]
      : format \in Formats, cells \in SessionCells, name \in SessionNames }

(***************************************************************************)
(* Specifications                                                          *)
(***************************************************************************)

InitAir ==
    /\ airCase \in AirCases
    /\ blockState = Descriptor(airCase)
    /\ airResult = NotDone
    /\ VarintIdle /\ ParseIdle /\ FloodIdle /\ StackIdle
    /\ ViewIdle
    /\ LoadIdle /\ SceneIdle

NextAir == ClassifyAir

SpecAir == InitAir /\ [][NextAir]_vars

\* renderMaterials: formatStacks(m.count)
CallFormatStacks ==
    /\ ~stackText.done
    /\ stackText' = [done |-> TRUE, text |-> FormatStacks(stackCount)]
    /\ UNCHANGED <<stackCount, airVars, varintVars, parseVars, floodVars, viewVars, loadVars, sceneVars>>

InitStacks ==
    /\ stackCount \in 0..MaxStackCount
    /\ stackText = NotDone
    /\ AirIdle /\ VarintIdle /\ ParseIdle /\ FloodIdle
    /\ ViewIdle
    /\ LoadIdle /\ SceneIdle

NextStacks == CallFormatStacks

SpecStacks == InitStacks /\ [][NextStacks]_vars

InitVarint ==
    /\ original \in {[values |-> v, cut |-> c] :
                        v \in SeqsUpTo(VarintSamples, MaxCount), c \in 0..MaxCut}
    /\ original.cut <= Len(EncodeVarintArray(original.values))
    /\ bytes = LET b == EncodeVarintArray(original.values)
               IN  SubSeq(b, 1, Len(b) - original.cut)
    /\ expectedCount = Len(original.values)
    /\ decoded = NotDone
    /\ AirIdle /\ ParseIdle /\ FloodIdle /\ StackIdle
    /\ ViewIdle
    /\ LoadIdle /\ SceneIdle

NextVarint == CallDecodeVarintArray

SpecVarint == InitVarint /\ [][NextVarint]_vars

InitParse ==
    /\ source \in ParseSources
    /\ nbtData = WriteFile(source)
    /\ schematic = NoSchematic
    /\ parseError = NoError
    /\ probe = NoProbe
    /\ materialsData = NotDone
    /\ AirIdle /\ VarintIdle /\ FloodIdle /\ StackIdle
    /\ ViewIdle
    /\ LoadIdle /\ SceneIdle

NextParse == LoadFile

SpecParse == InitParse /\ [][NextParse]_vars

InitDamaged ==
    /\ source \in DamagedSources
    /\ nbtData = DamageFile(WriteFile(source), source.damage)
    /\ schematic = NoSchematic
    /\ parseError = NoError
    /\ probe = NoProbe
    /\ materialsData = NotDone
    /\ AirIdle /\ VarintIdle /\ FloodIdle /\ StackIdle
    /\ ViewIdle
    /\ LoadIdle /\ SceneIdle

NextDamaged == LoadFile

SpecDamaged == InitDamaged /\ [][NextDamaged]_vars

\* a .schem file of n cells in a row whose BlockData is the byte buffer b
VarintFile(b, n) ==
    [ext  |-> "schem",
     root |-> [Width        |-> n,
               Height       |-> 1,
               Length       |-> 1,
               hasPalette   |-> TRUE,
               Palette      |-> SchemPaletteTag(PaletteOne, Len(PaletteOne)),
               hasBlockData |-> TRUE,
               BlockData    |-> [i \in 1..Len(b) |-> ToInt8(b[i])]]]

\* the buffers of SpecVarint, each also as the BlockData of a file
InitVarintFile ==
    /\ original \in {[values |-> v, cut |-> c] :
                        v \in SeqsUpTo(VarintSamples, MaxCount), c \in 0..MaxCut}
    /\ original.cut <= Len(EncodeVarintArray(original.values))
    /\ bytes = LET b == EncodeVarintArray(original.values)
               IN  SubSeq(b, 1, Len(b) - original.cut)
    /\ expectedCount = Len(original.values)
    /\ decoded = NotDone
    /\ source = [format |-> "schem", width |-> expectedCount, height |-> 1, length |-> 1,
                 palette |-> PaletteOne, cells |-> original.values]
    /\ nbtData = VarintFile(bytes, expectedCount)
    /\ schematic = NoSchematic
    /\ parseError = NoError
    /\ probe = NoProbe
    /\ materialsData = NotDone
    /\ AirIdle /\ FloodIdle /\ StackIdle
    /\ ViewIdle
    /\ LoadIdle /\ SceneIdle

NextVarintFile ==
    \/ CallDecodeVarintArray
    \/ LoadFile

SpecVarintFile == InitVarintFile /\ [][NextVarintFile]_vars

InitGrid ==
    /\ source \in GridSources
    /\ nbtData = WriteFile(source)
    /\ schematic = NoSchematic
    /\ parseError = NoError
    /\ probe = NoProbe
    /\ materialsData = NotDone
    /\ AirIdle /\ VarintIdle /\ FloodIdle /\ StackIdle
    /\ ViewIdle
    /\ LoadIdle /\ SceneIdle

NextGrid ==
    \/ LoadFile
    \/ QueryGrid

SpecGrid == InitGrid /\ [][NextGrid]_vars

InitFlood ==
    /\ source \in FloodSources
    /\ nbtData = WriteFile(source)
    /\ schematic = NoSchematic
    /\ parseError = NoError
    /\ probe = NoProbe
    /\ materialsData = NotDone
    /\ FloodIdle
    /\ AirIdle /\ VarintIdle /\ StackIdle
    /\ ViewIdle
    /\ LoadIdle /\ SceneIdle

NextFlood ==
    \/ LoadFile
    \/ StepLayer
    \/ StartFloodFill
    \/ FloodFillStep
    \/ FloodFillReturn

SpecFlood == InitFlood /\ [][NextFlood]_vars

InitSession ==
    /\ source \in SessionSources
    /\ nbtData = NameFile(WriteFile(source), source.name)
    /\ schematic = NoSchematic
    /\ parseError = NoError
    /\ probe = NoProbe
    /\ materialsData = NotDone
    /\ FloodIdle
    /\ ViewIdle
    /\ AirIdle /\ VarintIdle /\ StackIdle
    /\ LoadIdle /\ SceneIdle

NextSession ==
    \/ LoadFile
    \/ StepLayer
    \/ SlideLayer
    \/ MovePointer
    \/ ClickPointer
    \/ View3D
    \/ View2D
    \/ CloseSchematic
    \/ HighlightTimer
    \/ BuildWake
    \/ BuildAddMesh
    \/ BuildFinish

SpecSession == InitSession /\ [][NextSession]_vars

\* nothing loaded, nothing built, one of the files at hand about to be dropped
InitApp ==
    /\ source \in AppFiles
    /\ nbtData = FileTree(source)
    /\ schematic = NoSchematic
    /\ parseError = NoError
    /\ probe = NoProbe
    /\ materialsData = NotDone
    /\ FloodIdle
    /\ ViewIdle
    /\ AirIdle /\ VarintIdle /\ StackIdle
    /\ LoadIdle /\ SceneIdle

\* files dropped one after another, with or without closing in between, the
\* layer controls, and the 3D view with its timer and its build
NextScene ==
    \/ DropFileAlone
    \/ ReadDone
    \/ PreloadDone
    \/ CloseSchematic
    \/ StepLayer
    \/ SlideLayer
    \/ View3D
    \/ View2D
    \/ ToggleHighlight
    \/ HighlightTimer
    \/ BuildWake
    \/ BuildAddMesh
    \/ BuildFinish

SpecScene == InitApp /\ [][NextScene]_vars

\* files dropped one after another, with or without closing in between, the
\* layer controls and the pointer on the 2D view
NextApp ==
    \/ DropFileAlone
    \/ ReadDone
    \/ PreloadDone
    \/ CloseSchematic
    \/ StepLayer
    \/ SlideLayer
    \/ MovePointer
    \/ ClickPointer

SpecApp == InitApp /\ [][NextApp]_vars

\* files dropped at any time, also while another is still loading
NextLoads ==
    \/ DropFile
    \/ ReadDone
    \/ PreloadDone
    \/ CloseSchematic
    \/ StepLayer

SpecLoads == InitApp /\ [][NextLoads]_vars

(***************************************************************************)
(* Properties                                                              *)
(***************************************************************************)

\* the adapter was run on the file, whatever came of it
ParseAttempted == schematic.loaded \/ parseError.thrown

\* every cell of the written file names a palette entry
SourceWellFormed(src) ==
    \A i \in 1..Len(src.cells) :
        /\ src.cells[i] < Len(src.palette)
        /\ src.palette[src.cells[i] + 1].present

\* the descriptor the writer assigned to (x, y, z)
Intended(src, x, y, z) ==
    src.palette[src.cells[x + z * src.width + y * src.width * src.length + 1] + 1].text

InRange(g) == (0..(g.width - 1)) \X (0..(g.height - 1)) \X (0..(g.length - 1))

SourceBits(src) == Max(2, CeilLog2(Len(src.palette)))

\* some entry of a spanning word array of the file lies across two words
Straddles(src) ==
    \E i \in 0..(Len(src.cells) - 1) :
        (i * SourceBits(src)) \div 64 # (i * SourceBits(src) + SourceBits(src) - 1) \div 64

\* a spanning word array the adapter reads as written: its word count differs
\* from the non-spanning one, or no entry lies across two words
LayoutRecognised(src) ==
    src.format = "spanning" =>
        \/ CeilDiv(Len(src.cells) * SourceBits(src), 64)
              # CeilDiv(Len(src.cells), 64 \div SourceBits(src))
        \/ ~Straddles(src)

RoundTripHolds ==
    /\ schematic.loaded
    /\ \A c \in InRange(schematic) :
          GetBlock(schematic, c[1], c[2], c[3]) = Intended(source, c[1], c[2], c[3])

(* C1 as stated: a well-formed file of either format and either word layout,
   of any cell count and palette size, parses to a grid whose getBlock returns
   the descriptor written for every cell. *)
RoundTripEveryLayout ==
    (ParseAttempted /\ SourceWellFormed(source)) => RoundTripHolds

(* C1 amended: the round trip holds for varint files, for non-spanning word
   arrays, and for spanning word arrays whose word count differs from the
   non-spanning count or in which no entry lies across two words. *)
RoundTripRecognisedLayout ==
    (ParseAttempted /\ SourceWellFormed(source) /\ LayoutRecognised(source))
        => RoundTripHolds

RoundTripWitness ==
    /\ schematic.loaded
    /\ source.format = "spanning"
    /\ source.palette = PaletteFive
    /\ Len(source.cells) = 64
    /\ Straddles(source)
    /\ SourceWellFormed(source)
    /\ source.cells[22] = 3
    /\ GetBlock(schematic, 1, 1, 1) = PaletteFive[source.cells[22] + 1].text

(* C2: a list of non-negative 32-bit integers written as LEB128 and decoded
   with the list's length comes back element for element. *)
VarintRoundTrip ==
    (decoded.done /\ original.cut = 0) => (decoded.ok /\ decoded.value = original.values)

VarintRoundTripWitness ==
    /\ decoded.done
    /\ original.cut = 0
    /\ original.values = <<2147483647, 300>>
    /\ Len(bytes) = 7
    /\ decoded.ok
    /\ decoded.value = <<2147483647, 300>>

IndexValid(g, idx) ==
    /\ idx >= 0
    /\ idx < Len(g.paletteList)
    /\ g.paletteList[idx + 1] # Null

(* C5 as stated: in every grid an adapter returns, each decoded cell index
   names a non-null palette entry. *)
IndicesAlwaysValid ==
    schematic.loaded =>
        \A i \in 1..Len(schematic.blockIndices) : IndexValid(schematic, schematic.blockIndices[i])

(* C5 amended: the adapters do not validate indices.  In the grid returned for
   a file whose written indices all name palette entries (a spanning word
   array being one the adapter reads as written) each decoded index names a
   non-null palette entry; in any returned grid getBlock returns null for a
   cell whose decoded index names none. *)
IndicesValidForWellFormed ==
    /\ (schematic.loaded /\ SourceWellFormed(source) /\ LayoutRecognised(source)) =>
          \A i \in 1..Len(schematic.blockIndices) :
              IndexValid(schematic, schematic.blockIndices[i])
    /\ schematic.loaded =>
          \A c \in InRange(schematic) :
              LET r == GetBlockCall(schematic, c[1], c[2], c[3])
              IN  \A n \in r.reads :
                      ~IndexValid(schematic, schematic.blockIndices[n + 1]) => r.ret = Null

IndicesValidWitness ==
    /\ schematic.loaded
    /\ source.format = "nonspanning"
    /\ source.palette = PaletteFive
    /\ SourceWellFormed(source)
    /\ Len(schematic.blockIndices) = 24
    /\ schematic.blockIndices[23] = 4
    /\ schematic.blockIndices[24] = 0

(* C6: the air test of parseSchem, the air test of parseLitematic and isAir
   give the same answer for every descriptor. *)
AirClassifiersAgree ==
    airResult.done =>
        /\ airResult.schem = airResult.isAir
        /\ airResult.litematic = airResult.isAir

\* the classification the descriptor's namespace and id call for
ExpectedAir(c) ==
    \/ c.ns = "minecraft" /\ c.id \in {"air", "cave_air", "void_air"}
    \/ c.ns = "none" /\ c.id = "air"

(* C7: isAir is true for minecraft:air, minecraft:cave_air, minecraft:void_air
   and bare air, false for minecraft:stone, whatever the letter case of the
   namespace and id and whatever property suffix follows. *)
IsAirClassification ==
    airResult.done =>
        /\ airResult.isAir = ExpectedAir(airCase)
        /\ blockState \in {<<"minecraft", ":", "air">>, <<"minecraft", ":", "cave_air">>,
                           <<"minecraft", ":", "void_air">>, <<"air">>} => airResult.isAir
        /\ blockState = <<"minecraft", ":", "stone">> => ~airResult.isAir

IsAirClassificationWitness ==
    /\ airResult.done
    /\ blockState = <<"MINECRAFT", ":", "CAVE_AIR", "[", "facing", "=", "north", "]">>
    /\ airResult.isAir

RECURSIVE SumCounts(_)
SumCounts(list) == IF list = <<>> THEN 0 ELSE Head(list).count + SumCounts(Tail(list))

(* C8: totalNonAir is the number of in-range cells whose block isAir rejects,
   and so the sum of the counts computeMaterials produces. *)
TotalNonAirCountsNonAir ==
    (schematic.loaded /\ SourceWellFormed(source) /\ LayoutRecognised(source)) =>
        /\ schematic.totalNonAir =
              Cardinality({c \in InRange(schematic) :
                              ~IsAir(GetBlock(schematic, c[1], c[2], c[3]))})
        /\ materialsData.done => schematic.totalNonAir = SumCounts(materialsData.list)

ProbeOutOfRange ==
    \/ probe.x < 0 \/ probe.x >= schematic.width
    \/ probe.y < 0 \/ probe.y >= schematic.height
    \/ probe.z < 0 \/ probe.z >= schematic.length

(* C3: getBlock at a coordinate outside the grid returns null without reading
   the index array; at a coordinate inside it reads one position of the index
   array, and that position exists. *)
GetBlockBoundary ==
    probe.asked =>
        IF ProbeOutOfRange
        THEN probe.ret = Null /\ probe.reads = {}
        ELSE /\ Cardinality(probe.reads) = 1
             /\ \A n \in probe.reads : n >= 0 /\ n < Len(schematic.blockIndices)

GetBlockBoundaryWitness ==
    /\ probe.asked
    /\ schematic.format = "schem"
    /\ schematic.width = 2
    /\ probe.x = 2 /\ probe.y = 0 /\ probe.z = 0
    /\ GetBlock(schematic, 0, 1, 0) # Null
    /\ probe.ret = Null

(* C4: for either adapter and every in-range (x, y, z), getBlock reads flat
   position x + z*Width + y*Width*Length and returns the palette entry of the
   index stored there. *)
Linearization ==
    (probe.asked /\ ~ProbeOutOfRange) =>
        LET flat == probe.x + probe.z * schematic.width
                        + probe.y * schematic.width * schematic.length
            idx  == schematic.blockIndices[flat + 1]
        IN  /\ probe.reads = {flat}
            /\ probe.ret = IF IndexValid(schematic, idx)
                           THEN schematic.paletteList[idx + 1] ELSE Null

LinearizationWitness ==
    /\ probe.asked
    /\ schematic.format = "litematic"
    /\ schematic.width = 2 /\ schematic.height = 3 /\ schematic.length = 3
    /\ probe.x = 1 /\ probe.y = 2 /\ probe.z = 1
    /\ probe.reads = {15}
    /\ probe.ret = <<"minecraft", ":", "stone">>
    /\ schematic.blockIndices[16] # schematic.blockIndices[12]

\* the palette entry the file assigns to (x, z) of the current layer
SourceEntry(x, z) ==
    source.palette[source.cells[x + z * source.width
                                + currentLayer * source.width * source.length + 1] + 1]

LayerCells == (0..(source.width - 1)) \X (0..(source.length - 1))

StartInGrid == <<fill.startX, fill.startZ>> \in LayerCells

\* schematic.getBlock(startX, currentLayer, startZ)
StartBlock == GetBlock(schematic, fill.startX, currentLayer, fill.startZ)

\* the cells of `allowed` joined to a cell of S by steps between cells that
\* share an edge
RECURSIVE Connected(_, _)
Connected(S, allowed) ==
    LET more == {c \in allowed :
                    \E d \in S : (c[1] = d[1] /\ (c[2] = d[2] + 1 \/ c[2] = d[2] - 1))
                              \/ (c[2] = d[2] /\ (c[1] = d[1] + 1 \/ c[1] = d[1] - 1))}
    IN  IF more \subseteq S THEN S ELSE Connected(S \cup more, allowed)

(* C9: floodFill returns null, having built no cell set, whenever the start
   cell is air or has no base identifier, a start cell outside the grid and
   every cell of an all-air layer included. *)
FloodNoRegionOnAir ==
    (fill.pc # "idle" /\ (IsAir(StartBlock) \/ Falsy(GetBaseBlockId(StartBlock)))) =>
        /\ fill.pc = "returned"
        /\ fill.result = NoRegion
        /\ fill.cells = {}
        /\ fill.queue = <<>>

FloodNoRegionWitness ==
    /\ fill.pc = "returned"
    /\ StartInGrid
    /\ source.width = 2 /\ source.length = 2
    /\ \A c \in LayerCells : SourceEntry(c[1], c[2]).text = AirName
    /\ fill.result = NoRegion

\* the descriptor without its property suffix
Stripped(text) == SplitBracketFirst(text)

(* C10 as stated: the cell set floodFill returns from a non-air start cell is
   exactly the cells of the layer joined to the start cell through
   edge-sharing cells whose descriptor without its property suffix equals the
   start cell's. *)
FloodExactOnStrippedDescriptor ==
    (fill.pc = "returned" /\ StartInGrid /\ ~IsAir(StartBlock) /\ fill.result # NoRegion) =>
          fill.result.cells =
              Connected({<<fill.startX, fill.startZ>>},
                        {c \in LayerCells :
                            Stripped(SourceEntry(c[1], c[2]).text)
                                = Stripped(SourceEntry(fill.startX, fill.startZ).text)})

AirBases == {<<"air">>, <<"cave_air">>, <<"void_air">>}

(* C10 amended: the base identifier is the descriptor without its property
   suffix, lower-cased and without its `minecraft:` prefix.  floodFill returns
   a region exactly when the start cell is in the grid and its base identifier
   is none of air, cave_air, void_air; the cell set is then exactly the cells
   of the layer joined to the start cell through edge-sharing cells of equal
   base identifier. *)
FloodExactOnBaseId ==
    fill.pc = "returned" =>
        /\ fill.result = NoRegion <=>
              (~StartInGrid \/ SourceEntry(fill.startX, fill.startZ).base \in AirBases)
        /\ fill.result # NoRegion =>
              fill.result.cells =
                  Connected({<<fill.startX, fill.startZ>>},
                            {c \in LayerCells :
                                SourceEntry(c[1], c[2]).base
                                    = SourceEntry(fill.startX, fill.startZ).base})

FloodExactWitness ==
    /\ fill.pc = "returned"
    /\ fill.result # NoRegion
    /\ source.width = 3 /\ source.length = 3
    /\ fill.startX = 0 /\ fill.startZ = 0
    /\ fill.result.cells = {<<0, 0>>, <<1, 0>>, <<2, 0>>, <<2, 1>>, <<2, 2>>}
    /\ SourceEntry(0, 0).text = <<"MINECRAFT", ":", "STONE">>
    /\ SourceEntry(0, 2).base = SourceEntry(0, 0).base


\* two cells of the layer that share an edge
Adjacent(c, d) ==
    \/ c[1] = d[1] /\ (c[2] = d[2] + 1 \/ c[2] = d[2] - 1)
    \/ c[2] = d[2] /\ (c[1] = d[1] + 1 \/ c[1] = d[1] - 1)

(* C11: two edge-sharing cells of the layer whose descriptors have the same
   identifier and different property suffixes are both in the region floodFill
   returns or both outside it. *)
FloodIgnoresProperties ==
    (fill.pc = "returned" /\ fill.result # NoRegion) =>
        \A c \in LayerCells, d \in LayerCells :
            (/\ Adjacent(c, d)
             /\ SourceEntry(c[1], c[2]).Name = SourceEntry(d[1], d[2]).Name
             /\ SourceEntry(c[1], c[2]).Properties # SourceEntry(d[1], d[2]).Properties)
                => (c \in fill.result.cells <=> d \in fill.result.cells)

FloodIgnoresPropertiesWitness ==
    /\ fill.pc = "returned"
    /\ fill.result # NoRegion
    /\ fill.startX = 0 /\ fill.startZ = 0
    /\ source.width = 2
    /\ SourceEntry(0, 0).text = StairsName \o <<"[", "facing", "=", "north", "]">>
    /\ SourceEntry(1, 0).text = StairsName \o <<"[", "facing", "=", "south", "]">>
    /\ <<1, 0>> \in fill.result.cells

\* the least and the greatest member of a non-empty set of integers
MinOf(S) == CHOOSE m \in S : \A n \in S : m <= n
MaxOf(S) == CHOOSE m \in S : \A n \in S : m >= n

(* C12: in a region floodFill returns, minX, maxX, minZ, maxZ are the least and
   greatest x and z of its cells, w = maxX-minX+1, h = maxZ-minZ+1, count is
   the number of cells, every cell lies in the box and count <= w*h; on a
   layer filled with one block the region has count W*L, w = W and h = L. *)
FloodBoundingBox ==
    (fill.pc = "returned" /\ fill.result # NoRegion) =>
        LET r  == fill.result
            xs == {c[1] : c \in r.cells}
            zs == {c[2] : c \in r.cells}
        IN  /\ r.cells # {}
            /\ r.minX = MinOf(xs) /\ r.maxX = MaxOf(xs)
            /\ r.minZ = MinOf(zs) /\ r.maxZ = MaxOf(zs)
            /\ r.w = r.maxX - r.minX + 1
            /\ r.h = r.maxZ - r.minZ + 1
            /\ r.count = Cardinality(r.cells)
            /\ \A c \in r.cells : /\ r.minX <= c[1] /\ c[1] <= r.maxX
                                  /\ r.minZ <= c[2] /\ c[2] <= r.maxZ
            /\ r.count <= r.w * r.h
            /\ (\A c \in LayerCells : SourceEntry(c[1], c[2]).text = StartBlock) =>
                  /\ r.count = source.width * source.length
                  /\ r.w = source.width
                  /\ r.h = source.length

FloodBoundingBoxWitness ==
    /\ fill.pc = "returned"
    /\ fill.result # NoRegion
    /\ source.width = 3 /\ source.length = 3
    /\ fill.startX = 1 /\ fill.startZ = 1
    /\ \A c \in LayerCells : SourceEntry(c[1], c[2]).text = StoneName
    /\ fill.result.count = 9 /\ fill.result.w = 3 /\ fill.result.h = 3


\* the in-range cells of the loaded grid that are not air and have base
\* identifier b
CellsOfMaterial(b) ==
    {c \in InRange(schematic) :
        /\ ~IsAir(GetBlock(schematic, c[1], c[2], c[3]))
        /\ GetBaseBlockId(GetBlock(schematic, c[1], c[2], c[3])) = b}

(* C13: after computeMaterials every entry's count is the number of non-air
   cells with the entry's base identifier and is at least 1, every base
   identifier some non-air cell has is recorded, none is recorded twice, and
   air cells are counted nowhere. *)
MaterialsCountCells ==
    materialsData.done =>
        LET list == materialsData.list
        IN  /\ \A i \in 1..Len(list) :
                  /\ list[i].count = Cardinality(CellsOfMaterial(list[i].baseId))
                  /\ list[i].count >= 1
            /\ \A i \in 1..Len(list), j \in 1..Len(list) :
                  i # j => list[i].baseId # list[j].baseId
            /\ \A c \in InRange(schematic) :
                  LET bs == GetBlock(schematic, c[1], c[2], c[3])
                  IN  IF IsAir(bs)
                      THEN \A i \in 1..Len(list) : c \notin CellsOfMaterial(list[i].baseId)
                      ELSE \E i \in 1..Len(list) : list[i].baseId = GetBaseBlockId(bs)

MaterialsCountCellsWitness ==
    /\ materialsData.done
    /\ source.palette = PaletteFive
    /\ SourceWellFormed(source)
    /\ Len(source.cells) = 8
    /\ \E i \in 1..8 : source.cells[i] = 0
    /\ \E i \in 1..8 : source.cells[i] = 2
    /\ \E i \in 1..Len(materialsData.list) :
          materialsData.list[i] = [baseId |-> <<"oak_stairs">>, count |-> 2]

\* the position in the y, z, x scan of the first non-air cell with base
\* identifier b
FirstSeen(b) ==
    MinOf({c[1] + c[3] * schematic.width + c[2] * schematic.width * schematic.length
             : c \in CellsOfMaterial(b)})

(* C14: the material list is in non-increasing order of count, and entries of
   equal count are in the order in which the y, z, x scan first met their
   base identifiers. *)
MaterialsOrder ==
    materialsData.done =>
        LET list == materialsData.list
        IN  \A i \in 1..Len(list), j \in 1..Len(list) :
                i < j =>
                    \/ list[i].count > list[j].count
                    \/ /\ list[i].count = list[j].count
                       /\ FirstSeen(list[i].baseId) < FirstSeen(list[j].baseId)

MaterialsOrderWitness ==
    /\ materialsData.done
    /\ Len(materialsData.list) = 3
    /\ materialsData.list[1] = [baseId |-> <<"stone">>, count |-> 2]
    /\ materialsData.list[2] = [baseId |-> <<"oak_stairs">>, count |-> 2]
    /\ materialsData.list[3].baseId = <<"dirt">>


(* C15: with stacks = floor(count/64) and remainder = count mod 64, formatStacks
   returns the bare count when stacks = 0, `<stacks>×64` when remainder = 0 and
   stacks > 0, and `<stacks>×64 + <remainder>` otherwise; 10 gives `10` and 70
   gives `1×64 + 6`. *)
FormatStacksCases ==
    stackText.done =>
        LET stacks    == stackCount \div 64
            remainder == stackCount - 64 * stacks
        IN  /\ stacks * 64 + remainder = stackCount
            /\ 0 <= remainder /\ remainder < 64
            /\ stacks = 0 => stackText.text = ToDecimal(stackCount)
            /\ (stacks > 0 /\ remainder = 0) =>
                  stackText.text = ToDecimal(stacks) \o <<"×", "6", "4">>
            /\ (stacks > 0 /\ remainder > 0) =>
                  stackText.text = ToDecimal(stacks) \o <<"×", "6", "4", " ", "+", " ">>
                                      \o ToDecimal(remainder)
            /\ stackCount = 10 => stackText.text = <<"1", "0">>
            /\ stackCount = 70 => stackText.text = <<"1", "×", "6", "4", " ", "+", " ", "6">>
            /\ stackCount = 128 => stackText.text = <<"2", "×", "6", "4">>

FormatStacksWitness ==
    /\ stackText.done
    /\ stackCount = 70
    /\ stackText.text = <<"1", "×", "6", "4", " ", "+", " ", "6">>


\* the number of varints a buffer holds whole: its bytes with the high bit clear
CompleteVarints(b) == Cardinality({i \in 1..Len(b) : b[i] < 128})

(* C16: decodeVarintArray(bytes, N) fails when the buffer holds fewer than N
   whole varints, a buffer ending in a byte with the high bit set included,
   and parseSchem on a file with such a BlockData throws that error and
   returns no grid. *)
VarintTruncationFails ==
    CompleteVarints(bytes) < expectedCount =>
        /\ decoded.done => ~decoded.ok
        /\ ParseAttempted =>
              /\ parseError.thrown
              /\ parseError.message = "Unexpected end of varint data"
              /\ ~schematic.loaded
              /\ ~materialsData.done

VarintTruncationWitness ==
    /\ original.values = <<1, 300>>
    /\ original.cut = 1
    /\ bytes[Len(bytes)] >= 128
    /\ decoded.done /\ ~decoded.ok
    /\ parseError.thrown


\* the message of the first check of the adapter that an absent field fails
FirstMissingMessage(format, missing) ==
    IF format = "schem"
    THEN IF "Palette" \in missing THEN "No Palette found in .schem file"
         ELSE "No BlockData found in .schem file"
    ELSE IF "Regions" \in missing THEN "No Regions found in .litematic file"
         ELSE IF "Region" \in missing THEN "Empty Regions in .litematic file"
         ELSE IF "BlockStatePalette" \in missing THEN "No BlockStatePalette found"
         ELSE "No BlockStates found"

(* C17: parseSchem on a file without Palette or BlockData, and parseLitematic
   on a file without Regions, with an empty region set, without the block-state
   palette or without BlockStates, throws an error naming the field and
   returns no grid. *)
MissingFieldFails ==
    (ParseAttempted /\ source.damage.missing # {}) =>
        /\ parseError.thrown
        /\ parseError.message =
              FirstMissingMessage(IF source.format = "schem" THEN "schem" ELSE "litematic",
                                  source.damage.missing)
        /\ ~schematic.loaded
        /\ ~materialsData.done

MissingFieldWitness ==
    /\ source.format = "nonspanning"
    /\ source.damage = [missing |-> {"BlockStates"}, cut |-> 0, scale |-> <<1, 1, 1>>]
    /\ parseError.thrown
    /\ parseError.message = "No BlockStates found"

\* the words a file's layout needs for its cells
WordsRequired(src) ==
    IF src.format = "spanning"
    THEN CeilDiv(Len(src.cells) * SourceBits(src), 64)
    ELSE CeilDiv(Len(src.cells), 64 \div SourceBits(src))

(* C18: parseLitematic on a file whose BlockStates array has fewer words than
   its Width*Height*Length entries need throws and returns no grid. *)
TruncatedWordsFail ==
    (/\ ParseAttempted
     /\ source.format # "schem"
     /\ source.damage.missing = {}
     /\ source.damage.scale = <<1, 1, 1>>
     /\ Len(nbtData.root.Regions[1].BlockStates) < WordsRequired(source)) =>
        /\ parseError.thrown
        /\ ~schematic.loaded

(* C19: an adapter given dimensions whose product is not positive (a zero
   dimension, or a negative Width, Height or Length in a .schem file) throws
   and returns no grid. *)
MalformedDimensionsFail ==
    (/\ ParseAttempted
     /\ source.damage.missing = {}
     /\ source.damage.cut = 0
     /\ \/ 0 \in {source.damage.scale[i] : i \in 1..3}
        \/ /\ source.format = "schem"
           /\ nbtData.root.Width * nbtData.root.Height * nbtData.root.Length <= 0) =>
        /\ parseError.thrown
        /\ ~schematic.loaded


\* what parseSchem or parseLitematic returns for the file
AdapterReturn ==
    IF nbtData.ext = "schem" THEN ParseSchem(nbtData.root) ELSE ParseLitematic(nbtData.root)

\* the coordinates of a grid and those one step outside it
ProbeCoordinates(g) ==
    ((0 - 1)..g.width) \X ((0 - 1)..g.height) \X ((0 - 1)..g.length)

\* the fields of a grid and what its getBlock returns
Observed(g) ==
    [width       |-> g.width,
     height      |-> g.height,
     length      |-> g.length,
     paletteList |-> g.paletteList,
     totalNonAir |-> g.totalNonAir,
     blocks      |-> [c \in ProbeCoordinates(g) |-> GetBlock(g, c[1], c[2], c[3])]]

\* C20: as long as a grid is installed, its width, height, length, palette
\* list and totalNonAir and the value of getBlock at every coordinate are those
\* of the grid the adapter returned for the file, whatever the name fix-up of
\* loadFile, computeMaterials, the layer controls, hovering, clicking, the view
\* buttons and floodFill have done since
GridImmutable ==
    schematic.loaded => Observed(schematic) = Observed(AdapterReturn)

\* a file without a name of its own was loaded and renamed after the file, its
\* second layer shown in 3D mode after a build, a region highlighted and
\* another marked placed
GridImmutableWitness ==
    /\ schematic.loaded
    /\ AdapterReturn.name = Unnamed
    /\ schematic.name = <<"build">>
    /\ materialsData.done
    /\ currentLayer = 1
    /\ ~highlightedGroup.null
    /\ highlightBounds.count = 3
    /\ \E layer \in DOMAIN placedBlocks : placedBlocks[layer] # {}
    /\ is3DMode
    /\ is3DModelBuilt


\* the word array of the file's first region
FileWords == nbtData.root.Regions[1].BlockStates

\* bit number `bit` of the word array read as one stream of bits, FALSE past
\* its end
BitAt(words, bit) ==
    /\ bit \div 64 < Len(words)
    /\ (bit % 64) \in words[(bit \div 64) + 1]

\* entry i (0-based) of a stream of entries of b bits each, packed without gaps
StreamEntry(words, i, b) ==
    SumBits({k \in 0..(b - 1) : BitAt(words, i * b + k)})

\* entry i (0-based) when each word holds floor(64 / b) whole entries
PaddedEntry(words, i, b) ==
    LET perWord == 64 \div b
    IN  SumBits({k \in 0..(b - 1) : BitAt(words, 64 * (i \div perWord) + (i % perWord) * b + k)})

\* the number of entries and the bits of each, for the grid installed
GridEntries == schematic.width * schematic.height * schematic.length
GridBits == Max(2, CeilLog2(Len(schematic.paletteList)))

\* the two expected word counts differ and the array has the spanning one
SpanningChosen ==
    /\ CeilDiv(GridEntries * GridBits, 64) # CeilDiv(GridEntries, 64 \div GridBits)
    /\ Len(FileWords) = CeilDiv(GridEntries * GridBits, 64)

LitematicLoaded == schematic.loaded /\ schematic.format = "litematic"

(* C22: parseLitematic decodes the word array as a gapless stream exactly when
   the spanning and non-spanning word counts expected for the grid differ and
   the array has the spanning count; in every other case, equal counts and any
   other array length included, it decodes whole entries per word. *)
LayoutDisambiguation ==
    LitematicLoaded =>
        schematic.blockIndices =
            [i \in 1..GridEntries |->
                IF SpanningChosen THEN StreamEntry(FileWords, i - 1, GridBits)
                ELSE PaddedEntry(FileWords, i - 1, GridBits)]

\* a grid decoded as a stream where the other decoding gives another grid, and
\* a file whose length is the spanning count only because a word was cut
LayoutDisambiguationWitness ==
    /\ LitematicLoaded
    /\ SpanningChosen
    /\ source.format = "nonspanning"
    /\ source.damage.cut = 1
    /\ \E i \in 1..GridEntries :
          StreamEntry(FileWords, i - 1, GridBits) # PaddedEntry(FileWords, i - 1, GridBits)

\* the words entry i (0-based) is read from, in the layout chosen
WordsOfEntry(i) ==
    IF SpanningChosen
    THEN {(i * GridBits) \div 64, (i * GridBits + GridBits - 1) \div 64}
    ELSE {i \div (64 \div GridBits)}

(* C23: a word an entry needs that lies past the end of the array is read as
   zero: parseLitematic still returns a grid with all N entries, and every
   entry whose words are all missing decodes to index 0. *)
MissingWordsReadZero ==
    (/\ ParseAttempted
     /\ source.format # "schem"
     /\ source.damage.missing = {}) =>
        /\ schematic.loaded
        /\ Len(schematic.blockIndices) = GridEntries
        /\ \A i \in 0..(GridEntries - 1) :
              (\A w \in WordsOfEntry(i) : w >= Len(FileWords)) =>
                  schematic.blockIndices[i + 1] = 0

\* a file cut by a word, loaded, with a cell written non-zero in the missing
\* word
MissingWordsWitness ==
    /\ LitematicLoaded
    /\ source.damage = [missing |-> {}, cut |-> 1, scale |-> <<1, 1, 1>>]
    /\ \E i \in 0..(GridEntries - 1) :
          /\ \A w \in WordsOfEntry(i) : w >= Len(FileWords)
          /\ source.cells[i + 1] # 0
          /\ schematic.blockIndices[i + 1] = 0


FloodRunning == fill.pc = "loop"

\* no cell is in the queue twice, every queued cell is in the cell set, every
\* cell of the set is a cell of the layer, and each shift took a cell of the
\* set that is no longer queued
FloodEnqueuedOnce ==
    FloodRunning =>
        /\ \A i, j \in 1..Len(fill.queue) : fill.queue[i] = fill.queue[j] => i = j
        /\ \A i \in 1..Len(fill.queue) : fill.queue[i] \in fill.cells
        /\ fill.cells \subseteq (0..(schematic.width - 1)) \X (0..(schematic.length - 1))
        /\ fill.shifts + Len(fill.queue) = Cardinality(fill.cells)
        /\ fill.shifts <= schematic.width * schematic.length

\* the loop run on from the frame f empties the queue within `budget` more
\* iterations
RECURSIVE EmptiesWithin(_, _)
EmptiesWithin(f, budget) ==
    IF Len(f.queue) = 0 THEN TRUE
    ELSE IF budget = 0 THEN FALSE
    ELSE EmptiesWithin(VisitNeighbors(schematic, currentLayer,
                                      [f EXCEPT !.queue = Tail(@), !.shifts = @ + 1],
                                      Neighbors(Head(f.queue)[1], Head(f.queue)[2])),
                       budget - 1)

(* C30: floodFill terminates: a cell enters the cell set and the queue at most
   once, so there are at most width*length shifts: at every point of the loop
   the queue empties, and the call returns, within the shifts that remain of
   width*length. *)
FloodFillTerminates ==
    /\ FloodEnqueuedOnce
    /\ FloodRunning =>
          EmptiesWithin(fill, schematic.width * schematic.length - fill.shifts)
    /\ (fill.pc = "returned" /\ ~fill.result.null) =>
          /\ fill.queue = <<>>
          /\ fill.shifts = fill.result.count
          /\ fill.shifts <= schematic.width * schematic.length

\* a call that went through every cell of a layer and returned
FloodFillTerminatesWitness ==
    /\ fill.pc = "returned"
    /\ ~fill.result.null
    /\ schematic.width > 1
    /\ schematic.length > 1
    /\ fill.shifts = schematic.width * schematic.length


\* the intensity setHighlightLayer3D gives the instance at position p
Illumination(p) ==
    IF chkHighlight3d /\ p[2] # currentLayer THEN Dim ELSE Bright

\* the model is built and shown, and neither a build nor a highlight timer is
\* still to run
ModelShown ==
    /\ schematic.loaded
    /\ is3DMode
    /\ is3DModelBuilt
    /\ build.pc = "idle"
    /\ highlightTimers = 0

(* C21: whenever the 3D model is built and 3D mode is active, with 'Illuminate
   Layer' enabled every instance on the current layer has intensity 1.0 and
   every other instance 0.08, and with it disabled every instance has
   intensity 1.0, after any order of switching to 3D, build completion, layer
   changes and checkbox changes. *)
LayerIllumination ==
    ModelShown =>
        \A m \in 1..Len(instancedMeshes) :
            \A i \in 1..Len(instancedMeshes[m].positions) :
                instancedMeshes[m].colors[i] = Illumination(instancedMeshes[m].positions[i])


\* the position lists of the meshes in the scene
ScenePositions ==
    [m \in 1..Len(instancedMeshes) |-> instancedMeshes[m].positions]

(* C28: whenever the view is in 3D mode after the 3D button was pressed and
   the build has finished, the meshes in the scene were built from the
   currently loaded schematic; loading a second file while a model of the
   first is built never leaves the first file's model displayed. *)
ModelOfLoadedSchematic ==
    (/\ schematic.loaded
     /\ is3DMode
     /\ is3DModelBuilt
     /\ build.pc = "idle") =>
        ScenePositions = GroupPositions(schematic, SolidPositions(schematic, 0))


\* the cells marked placed on layer l
PlacedOn(placed, l) == IF l \in DOMAIN placed THEN placed[l] ELSE {}

\* the connected regions of layer l of the loaded schematic
RegionsOf(l) ==
    {FloodFill(schematic, l, c[1], c[2]).cells :
        c \in {d \in (0..(schematic.width - 1)) \X (0..(schematic.length - 1)) :
                  ~IsAir(GetBlock(schematic, d[1], l, d[2]))}}

\* the layers that carry a mark before or after a step
MarkedLayers == DOMAIN placedBlocks \cup DOMAIN placedBlocks'

(* C24: togglePlaced(layer, cells): if at least one cell of the group is not
   placed on that layer, afterwards all cells of the group are placed; if all
   are placed already, afterwards none is.  The placed state of the cells
   outside the group on that layer, and of every other layer, is unchanged. *)
TogglePlacedEffect ==
    [][placedBlocks' # placedBlocks =>
          \E cells \in RegionsOf(currentLayer) :
              LET before == PlacedOn(placedBlocks, currentLayer)
                  after  == PlacedOn(placedBlocks', currentLayer)
              IN  /\ IF cells \subseteq before
                     THEN after \cap cells = {}
                     ELSE cells \subseteq after
                  /\ after \ cells = before \ cells
                  /\ \A l \in MarkedLayers \ {currentLayer} :
                        PlacedOn(placedBlocks', l) = PlacedOn(placedBlocks, l)]_vars

\* a group placed as a whole by a click that found part of it placed: the
\* marks of the 2x1x2 file's region and the rest of the 2x2x2 file's region,
\* with a mark on the other layer left alone
TogglePlacedWitness ==
    /\ schematic.loaded
    /\ schematic.height = 2
    /\ currentLayer = 0
    /\ PlacedOn(placedBlocks, 0) = {<<0, 0>>, <<1, 0>>, <<0, 1>>, <<1, 1>>}
    /\ PlacedOn(placedBlocks, 1) # {}


(* C25: while a schematic is loaded, after any sequence of file loads,
   changeLayer(+1/-1) calls and slider inputs, 0 <= currentLayer <=
   max(0, height - 1). *)
LayerIndexInRange ==
    schematic.loaded =>
        /\ 0 <= currentLayer
        /\ currentLayer <= Max(0, schematic.height - 1)


\* what updateTooltip finds with the pointer over the cell (bx, bz) of the
\* layer shown: floodFill's region, or none off the grid and on air
RegionUnderPointer(bx, bz) ==
    IF bx < 0 \/ bx >= schematic.width \/ bz < 0 \/ bz >= schematic.length THEN NoRegion
    ELSE IF IsAir(GetBlock(schematic, bx, currentLayer, bz)) THEN NoRegion
    ELSE FloodFill(schematic, currentLayer, bx, bz)

(* C26: in every reachable state, if highlightedGroup is non-null then a
   schematic is loaded and highlightedGroup and highlightBounds equal the
   result of floodFill(lastHoverX, lastHoverZ) on the current layer of the
   loaded schematic, across hover moves, layer changes, closing a schematic
   and loading another file. *)
HighlightConsistent ==
    ~highlightedGroup.null =>
        /\ schematic.loaded
        /\ ~RegionUnderPointer(lastHoverX, lastHoverZ).null
        /\ highlightedGroup.cells = RegionUnderPointer(lastHoverX, lastHoverZ).cells
        /\ highlightBounds = RegionUnderPointer(lastHoverX, lastHoverZ)


(* C27: after any sequence of clicks, layer changes, closes and file loads,
   for every layer and every connected region of the loaded schematic on that
   layer either all cells of the region are marked placed or none is, and
   every placed mark refers to an in-range non-air cell of the schematic. *)
PlacedRegionUniform ==
    schematic.loaded =>
        \A l \in DOMAIN placedBlocks :
            /\ \A c \in placedBlocks[l] :
                  /\ 0 <= l /\ l < schematic.height
                  /\ 0 <= c[1] /\ c[1] < schematic.width
                  /\ 0 <= c[2] /\ c[2] < schematic.length
                  /\ ~IsAir(GetBlock(schematic, c[1], l, c[2]))
            /\ \A cells \in RegionsOf(l) :
                  \/ cells \subseteq placedBlocks[l]
                  \/ cells \cap placedBlocks[l] = {}


\* the grid loadFile installs for a file: the adapter's return with the name
\* fix-up
GridOfFile(src) ==
    LET tree == FileTree(src)
        r    == IF tree.ext = "schem" THEN ParseSchem(tree.root) ELSE ParseLitematic(tree.root)
    IN  NameFromFile([loaded       |-> TRUE,
                      format       |-> r.format,
                      width        |-> r.width,
                      height       |-> r.height,
                      length       |-> r.length,
                      name         |-> r.name,
                      paletteList  |-> r.paletteList,
                      blockIndices |-> r.blockIndices,
                      totalNonAir  |-> r.totalNonAir],
                     FileName(tree))

(* C29: if loadFile is started for file A and then for file B before A's
   read, parse and texture preload complete, then once both have finished the
   loaded schematic, the info panel and the materials list are those of B,
   the file selected last, whatever order the two chains complete in; and the
   loading overlay is not hidden while a load is still in progress. *)
LastSelectedWins ==
    /\ loads # <<>> => loadingActive
    /\ (loads = <<>> /\ selected.chosen /\ schematic.loaded) =>
          /\ schematic = GridOfFile(selected.file)
          /\ infoPanel.shown
          /\ infoPanel = InfoOf(GridOfFile(selected.file), FileName(FileTree(selected.file)))
          /\ materialsData.done
          /\ materialsData.list = ComputeMaterialsList(GridOfFile(selected.file))

====
